---- MODULE Spec2Model ----
(***************************************************************************)
(* Model of ai-navigator: the paper-ingestion pipeline                     *)
(* (src/src/pdf_processor.py, called from src/src/main.py), the            *)
(* code-generation endpoint (src/src/main.py), the analysis endpoint       *)
(* (src/backend/main.py) and the completion client                         *)
(* (src/src/llama_api_caller.py).                                          *)
(*                                                                         *)
(* Strings are sequences of tokens.  A token is a run of characters that   *)
(* the code never looks inside of, so that the substring tests, splits and *)
(* regular expressions of the source are computed on the sequences the way *)
(* Python computes them on the characters.                                 *)
(***************************************************************************)
EXTENDS Integers, Sequences, FiniteSets, TLC

(***************************************************************************)
(* Generic string helpers (Python str semantics on token sequences).       *)
(***************************************************************************)

\* s[i..i+Len(p)-1] = p
MatchAt(s, p, i) ==
    /\ i >= 1
    /\ i + Len(p) - 1 <= Len(s)
    /\ \A k \in 1..Len(p) : s[i + k - 1] = p[k]

\* Python `p in s`
Contains(s, p) ==
    \E i \in 1..(Len(s) + 1) : MatchAt(s, p, i)

\* index of the first occurrence of p in s at or after position from; 0 if none
FindFrom(s, p, from) ==
    LET hits == {i \in from..(Len(s) + 1) : MatchAt(s, p, i)}
    IN  IF hits = {} THEN 0 ELSE CHOOSE i \in hits : \A j \in hits : i <= j

\* Python `s.split(p)[1]`: the text between the first and the second occurrence of p
\* (to the end when there is no second one).  Only used when p occurs in s.
SplitSecond(s, p) ==
    LET a    == FindFrom(s, p, 1)
        rest == SubSeq(s, a + Len(p), Len(s))
        b    == FindFrom(rest, p, 1)
    IN  IF b = 0 THEN rest ELSE SubSeq(rest, 1, b - 1)

IsSpace(c) == c \in {" ", "\n"}

\* Python `s.split()`: the maximal runs of non-whitespace tokens, in order.
\* WsSplitFrom reads s token by token: `word` is the run being read, `words`
\* the runs already closed.
RECURSIVE WsSplitFrom(_, _, _)
WsSplitFrom(s, word, words) ==
    IF s = <<>> THEN (IF word = <<>> THEN words ELSE Append(words, word))
    ELSE IF IsSpace(Head(s))
        THEN WsSplitFrom(Tail(s), <<>>, IF word = <<>> THEN words ELSE Append(words, word))
    ELSE WsSplitFrom(Tail(s), Append(word, Head(s)), words)

WsSplit(s) == WsSplitFrom(s, <<>>, <<>>)

(***************************************************************************)
(* Results of a Python call: a value, None, or a raised exception.         *)
(***************************************************************************)
NoneResult == [kind |-> "none", val |-> <<>>]
RaiseResult == [kind |-> "raise", val |-> <<>>]
ValResult(v) == [kind |-> "val", val |-> v]

(***************************************************************************)
(* PDFProcessor.extract_arxiv_pdf_url                                      *)
(***************************************************************************)
ArxivPdfPrefix == <<"arxiv.org", "/pdf/">>
ArxivAbsPrefix == <<"arxiv.org", "/abs/">>
ArxivHtmlPrefix == <<"arxiv.org", "/html/">>

\* f"https://arxiv.org/pdf/{arxiv_id}.pdf"
PdfUrlOf(arxiv_id) == <<"https://", "arxiv.org", "/pdf/">> \o arxiv_id \o <<".pdf">>

\* `arxiv_url.split(prefix)[1].split()[0]`; raises IndexError when nothing but
\* whitespace follows the prefix
IdAfter(arxiv_url, prefix) ==
    LET parts == WsSplit(SplitSecond(arxiv_url, prefix))
    IN  IF parts = <<>> THEN RaiseResult ELSE ValResult(parts[1])

extract_arxiv_pdf_url(arxiv_url) ==
    IF Contains(arxiv_url, ArxivPdfPrefix) THEN ValResult(arxiv_url)
    ELSE LET got == IF Contains(arxiv_url, ArxivAbsPrefix)
                        THEN IdAfter(arxiv_url, ArxivAbsPrefix)
                    ELSE IF Contains(arxiv_url, ArxivHtmlPrefix)
                        THEN IdAfter(arxiv_url, ArxivHtmlPrefix)
                    ELSE NoneResult
         IN  IF got.kind = "val"
                THEN (IF got.val # <<>> THEN ValResult(PdfUrlOf(got.val)) ELSE NoneResult)
                ELSE got

(***************************************************************************)
(* The download directory: a function from the paths that exist to the     *)
(* content of the file.  A response body is the URL it was fetched from    *)
(* and what the bytes are: "pdf" (a PDF the parser reads), "bad" (bytes    *)
(* the parser throws on) or "empty" (no bytes).                            *)
(***************************************************************************)
download_dir == <<"downloads/">>

\* os.path.join(self.download_dir, name)
PathJoin(name) == download_dir \o name

\* open(path, 'wb') / open(path, 'w'): the file can be created when its directory
\* exists.  The code creates download_dir and nothing below it, so a name with a
\* path separator in it names a directory that does not exist.
CanCreate(path) ==
    /\ Len(path) >= 2
    /\ SubSeq(path, 1, 1) = download_dir
    /\ \A i \in 2..Len(path) : path[i] # "/"

FileWrite(files, path, content) ==
    [p \in (DOMAIN files) \cup {path} |-> IF p = path THEN content ELSE files[p]]

\* file contents: the bytes of an HTTP response body, or the text of the manifest
PdfBytes(url, body) == [kind |-> "pdf", url |-> url, body |-> body, text |-> <<>>]
TextFile(text) == [kind |-> "text", url |-> <<>>, body |-> "", text |-> text]

\* outcomes of requests.get(url) followed by raise_for_status()
NetOutcomes == {"error", "empty", "pdf", "bad"}

(***************************************************************************)
(* PDFProcessor.download_pdf(url, save_path) on the directory `files`,     *)
(* with the outcome `net` of the HTTP request.  save_path = <<>> is None.  *)
(* Gives the returned value (ret: "none" or "bytes"), the bytes, whether   *)
(* a network request was made, and the directory afterwards.               *)
(***************************************************************************)
url_allowed(url) == Contains(url, <<"arxiv.org">>)

download_pdf(url, save_path, net, files) ==
    IF ~url_allowed(url)
        THEN [ret |-> "none", bytes |-> PdfBytes(url, "empty"), requested |-> FALSE,
              files |-> files]
    ELSE IF net = "error"
        THEN [ret |-> "none", bytes |-> PdfBytes(url, "empty"), requested |-> TRUE,
              files |-> files]
    ELSE IF save_path # <<>> /\ ~CanCreate(save_path)
        THEN [ret |-> "none", bytes |-> PdfBytes(url, "empty"), requested |-> TRUE,
              files |-> files]
    ELSE [ret |-> "bytes", bytes |-> PdfBytes(url, net), requested |-> TRUE,
          files |-> IF save_path # <<>> THEN FileWrite(files, save_path, PdfBytes(url, net))
                    ELSE files]

\* the `if` left out: every attempted reference is recorded
Truthy_Always(dl) == TRUE

\* Python truthiness of download_pdf's return value: None and b"" are falsy
Truthy(dl) == dl.ret = "bytes" /\ dl.bytes.body # "empty"

(***************************************************************************)
(* PDFProcessor.is_valid_arxiv_id.  An ID is a sequence of characters.     *)
(***************************************************************************)
IsDigit(c) == c \in {"0", "1", "2", "3", "4", "5", "6", "7", "8", "9"}

AllDigits(s) == \A i \in 1..Len(s) : IsDigit(s[i])

\* \d{4}\.\d{4,5} on the whole of s
FullModern(s) ==
    /\ Len(s) \in {9, 10}
    /\ AllDigits(SubSeq(s, 1, 4))
    /\ s[5] = "."
    /\ AllDigits(SubSeq(s, 6, Len(s)))

\* \d{7} on the whole of s
FullLegacy(s) == Len(s) = 7 /\ AllDigits(s)

\* `$` of re.match matches at the end of s and also just before a newline that
\* ends s: s without that newline
BeforeFinalNewline(s) ==
    IF Len(s) >= 1 /\ s[Len(s)] = "\n" THEN SubSeq(s, 1, Len(s) - 1) ELSE s

\* re.match(r'^\d{4}\.\d{4,5}$', s)
ReMatchModern(s) == FullModern(s) \/ FullModern(BeforeFinalNewline(s))

\* re.match(r'^\d{7}$', s)
ReMatchLegacy(s) == FullLegacy(s) \/ FullLegacy(BeforeFinalNewline(s))

is_valid_arxiv_id(ref_id) == ReMatchModern(ref_id) \/ ReMatchLegacy(ref_id)

(***************************************************************************)
(* JSON texts and values.  The text of an LLM reply is a sequence of       *)
(* tokens: the brackets and the comma of a JSON array, literals that stand *)
(* for a whole JSON object / number / string / null, and "junk" (prose     *)
(* that is no JSON).  A value is an array of values or one literal.        *)
(***************************************************************************)
\* the JSON object literals a reply may hold, by token; see RefTitle, RefId
ObjTokens == {"o1", "o2", "o3", "o4", "o5", "o6", "o7", "o8", "o9", "o10"}

AtomTokens == ObjTokens \cup {"num", "str", "null"}

JsonAtom(tok) == [t |-> "atom", a |-> tok, items |-> <<>>]
JsonArray(items) == [t |-> "arr", a |-> "", items |-> items]

ParseFail == [ok |-> FALSE, val |-> JsonArray(<<>>), next |-> 0]
ParseOk(v, n) == [ok |-> TRUE, val |-> v, next |-> n]

\* json.loads' scanner: one value starting at token i
RECURSIVE ParseValue(_, _)
RECURSIVE ParseElems(_, _, _)
ParseValue(toks, i) ==
    IF i > Len(toks) THEN ParseFail
    ELSE IF toks[i] \in AtomTokens THEN ParseOk(JsonAtom(toks[i]), i + 1)
    ELSE IF toks[i] = "["
        THEN (IF i + 1 <= Len(toks) /\ toks[i + 1] = "]"
                THEN ParseOk(JsonArray(<<>>), i + 2)
                ELSE ParseElems(toks, i + 1, <<>>))
    ELSE ParseFail

\* the elements of an array after its "[" (or after a ","), up to its "]"
ParseElems(toks, i, acc) ==
    LET e == ParseValue(toks, i)
    IN  IF ~e.ok THEN ParseFail
        ELSE IF e.next > Len(toks) THEN ParseFail
        ELSE IF toks[e.next] = "]" THEN ParseOk(JsonArray(Append(acc, e.val)), e.next + 1)
        ELSE IF toks[e.next] = "," THEN ParseElems(toks, e.next + 1, Append(acc, e.val))
        ELSE ParseFail

\* json.loads(text): the value, or JSONDecodeError (ok = FALSE); text after the
\* value is an error ("Extra data")
json_loads(text) ==
    LET r == ParseValue(text, 1)
    IN  IF r.ok /\ r.next = Len(text) + 1 THEN r ELSE ParseFail

\* the pattern made lazy (r'\[.*?\]'): the leftmost "[" up to the nearest "]"
BracketSpan_NonGreedy(text) ==
    LET opens  == {i \in 1..Len(text) : text[i] = "["}
        closes == {i \in 1..Len(text) : text[i] = "]"}
        hits   == {i \in opens : \E j \in closes : j > i}
    IN  IF hits = {} THEN <<>>
        ELSE LET a == CHOOSE i \in hits : \A k \in hits : i <= k
                 after == {j \in closes : j > a}
                 b == CHOOSE j \in after : \A k \in after : j <= k
             IN  SubSeq(text, a, b)

\* re.search(r'\[.*\]', text, re.DOTALL): the leftmost "[" that has a "]" after it,
\* greedily up to the last "]"; <<>> when there is no match
BracketSpan(text) ==
    LET opens  == {i \in 1..Len(text) : text[i] = "["}
        closes == {i \in 1..Len(text) : text[i] = "]"}
        hits   == {i \in opens : \E j \in closes : j > i}
    IN  IF hits = {} THEN <<>>
        ELSE LET a == CHOOSE i \in hits : \A k \in hits : i <= k
                 b == CHOOSE j \in closes : \A k \in closes : k <= j
             IN  SubSeq(text, a, b)

\* the exception classes the first handler of extract_references_with_llm
\* catches: `except json.JSONDecodeError`
CaughtByFirstHandler == {"JSONDecodeError"}

\* the exception json.loads raises on a str that is no JSON text
JsonLoadsError == "JSONDecodeError"

\* extract_references_with_llm, from the reply of the second LLM call on: the
\* value of `references` that is returned, or raised = TRUE when an exception
\* leaves the function
parse_references(response_json) ==
    LET direct == json_loads(response_json)
    IN  IF direct.ok THEN [raised |-> FALSE, val |-> direct.val]
        ELSE IF JsonLoadsError \notin CaughtByFirstHandler
            THEN [raised |-> TRUE, val |-> JsonArray(<<>>)]
        ELSE LET json_match == BracketSpan(response_json)
             IN  IF json_match = <<>> THEN [raised |-> FALSE, val |-> JsonArray(<<>>)]
                 ELSE LET second == json_loads(json_match)
                      IN  [raised |-> FALSE,
                           val |-> IF second.ok THEN second.val ELSE JsonArray(<<>>)]

(***************************************************************************)
(* The JSON objects of the replies: reference.get("title") and             *)
(* reference.get("ID") of each object literal.  A title is a sequence of   *)
(* tokens, an ID a sequence of characters.                                 *)
(***************************************************************************)
Absent == [kind |-> "absent", s |-> <<>>]
Str(s) == [kind |-> "str", s |-> s]
Num == [kind |-> "num", s |-> <<>>]

Id1409 == <<"1", "4", "0", "9", ".", "0", "4", "7", "3">>
Id1706 == <<"1", "7", "0", "6", ".", "0", "3", "7", "6", "2">>
IdLegacy == <<"1", "2", "3", "4", "5", "6", "7">>
IdShort == <<"1", "2", ".", "3", "4", "5">>

RefTitle(tok) ==
    CASE tok = "o1"  -> Str(<<"X">>)
      [] tok = "o2"  -> Absent
      [] tok = "o3"  -> Str(<<"X">>)
      [] tok = "o4"  -> Str(<<"Y", "/", "Z">>)
      [] tok = "o5"  -> Str(<<"X", "\n", "Y">>)
      [] tok = "o6"  -> Str(<<"main_paper">>)
      [] tok = "o7"  -> Str(<<"Z">>)
      [] tok = "o8"  -> Absent
      [] tok = "o9"  -> Str(<<"Z">>)
      [] tok = "o10" -> Str(<<"Z">>)

RefId(tok) ==
    CASE tok = "o1"  -> Str(Id1409)
      [] tok = "o2"  -> Str(IdLegacy)
      [] tok = "o3"  -> Str(Id1706)
      [] tok = "o4"  -> Str(Id1409)
      [] tok = "o5"  -> Str(Id1706)
      [] tok = "o6"  -> Str(Id1409)
      [] tok = "o7"  -> Str(IdShort)
      [] tok = "o8"  -> Absent
      [] tok = "o9"  -> Num
      [] tok = "o10" -> Str(Id1409 \o <<"\n">>)

\* the number of keys of the object (what iterating over the dict yields)
ObjKeys(tok) ==
    (IF RefTitle(tok).kind = "absent" THEN 0 ELSE 1)
    + (IF RefId(tok).kind = "absent" THEN 0 ELSE 1)

\* f"reference_{i}"
DefaultTitle(i) ==
    <<CASE i = 0 -> "reference_0" [] i = 1 -> "reference_1" [] i = 2 -> "reference_2"
        [] i = 3 -> "reference_3" [] OTHER -> "reference_n">>

\* enumerate(references) / len(references): the elements Python iterates over.
\* A list gives its elements, a dict its keys (strings), a string its characters;
\* a number or null is not iterable (TypeError).
Iterable(v) ==
    \/ v.t = "arr"
    \/ v.t = "atom" /\ v.a \in ObjTokens \cup {"str"}

Elements(v) ==
    IF v.t = "arr" THEN v.items
    ELSE IF v.a \in ObjTokens THEN [k \in 1..ObjKeys(v.a) |-> JsonAtom("str")]
    ELSE <<JsonAtom("str")>>

\* an element the loop can call .get on: a dict
IsDict(e) == e.t = "atom" /\ e.a \in ObjTokens

\* Python truthiness of ref_id
IdTruthy(id) == id.kind = "num" \/ (id.kind = "str" /\ id.s # <<>>)

(***************************************************************************)
(* PDFProcessor.extract_text_from_pdf and the manifest's text format.      *)
(***************************************************************************)
\* the text of the pages, each followed by "\n"; "" when PyPDF2 throws
extract_text_from_pdf(pdf_content) ==
    IF pdf_content.kind = "pdf" /\ pdf_content.body = "pdf"
        THEN <<"text of ">> \o pdf_content.url \o <<" ", "body", "\n">>
        ELSE <<>>

\* '\n'.join(paths)
RECURSIVE JoinLines(_)
JoinLines(paths) ==
    IF paths = <<>> THEN <<>>
    ELSE IF Len(paths) = 1 THEN paths[1]
    ELSE paths[1] \o <<"\n">> \o JoinLines(Tail(paths))

\* text.splitlines().  SplitLinesFrom reads the text token by token: `line` is
\* the line being read, `lines` the lines already closed by a line break.
RECURSIVE SplitLinesFrom(_, _, _)
SplitLinesFrom(text, line, lines) ==
    IF text = <<>> THEN (IF line = <<>> THEN lines ELSE Append(lines, line))
    ELSE IF Head(text) = "\n" THEN SplitLinesFrom(Tail(text), <<>>, Append(lines, line))
    ELSE SplitLinesFrom(Tail(text), Append(line, Head(text)), lines)

SplitLines(text) == SplitLinesFrom(text, <<>>, <<>>)

main_pdf_path == PathJoin(<<"main_paper", ".pdf">>)
paths_file == PathJoin(<<"pdf_paths", ".txt">>)

\* os.path.join(self.download_dir, f'{ref_title}.pdf')
ref_pdf_path(ref_title) == PathJoin(ref_title \o <<".pdf">>)

\* f'https://arxiv.org/pdf/{ref_id}.pdf'
ref_url(ref_id) == <<"https://", "arxiv.org", "/pdf/">> \o ref_id \o <<".pdf">>

(***************************************************************************)
(* State.                                                                  *)
(*   files   the download directory (shared by all runs)                   *)
(*   run     per ingestion run: the position in process_arxiv_paper and    *)
(*           the local variables of the functions it is in                 *)
(*   calls   per run, the external calls made so far (history)             *)
(*   writer  which run last wrote the manifest file (history; 0 = nobody)  *)
(*   mode    which scenario is explored: one run, two concurrent runs, or  *)
(*           one of the single-function and single-request scenarios       *)
(*   probe   the state of the single-function and single-request scenarios *)
(***************************************************************************)
VARIABLES files, run, calls, writer, mode, probe

vars == <<files, run, calls, writer, mode, probe>>

Runs == {1, 2}

\* bound on the length of the reference list a reply of the pipeline scenario holds
MaxRefs == 2

UrlA == <<"https://", "arxiv.org", "/abs/", "1706.03762">>
UrlB == <<"https://", "arxiv.org", "/html/", "2301.00001">>
UrlNotArxiv == <<"https://", "evil.com", "/abs/", "1706.03762">>
UrlNoId == <<"https://", "arxiv.org", "/abs/">>

\* the arxiv_url a request may carry
UrlInputs(r) ==
    IF mode = "single" THEN {UrlA, UrlNotArxiv, UrlNoId}
    ELSE IF r = 1 THEN {UrlA} ELSE {UrlB}

\* the outcomes of an HTTP GET that are explored
NetInputs == IF mode = "single" THEN NetOutcomes ELSE {"error", "pdf"}

\* "[" e1 "," e2 ... "]"
RECURSIVE ArrayText(_)
ArrayText(elems) ==
    IF elems = <<>> THEN <<"[", "]">>
    ELSE IF Len(elems) = 1 THEN <<"[", elems[1], "]">>
    ELSE <<"[", elems[1], ",">> \o Tail(ArrayText(Tail(elems)))

TokSeqs(S, n) == UNION {[1..k -> S] : k \in 0..n}

\* the replies of the ID-extraction call that are explored: every array of up to
\* MaxRefs objects, and replies of other shapes
OddReplies ==
    { <<"junk">>, <<"junk", "[", "o1", "]", "junk">>, <<"[", "o1">>,
      <<"o1">>, <<"o8">>, <<"num">>, <<"str">>, <<"null">>,
      <<"[", "num", "]">>, <<"[", "[", "o1", "]", "]">> }

ReplyInputs ==
    IF mode = "single"
        THEN {ArrayText(e) : e \in TokSeqs(ObjTokens, MaxRefs)} \cup OddReplies
        ELSE {ArrayText(<<>>), ArrayText(<<"o1">>), ArrayText(<<"o6">>), <<"num">>}

NoBytes == PdfBytes(<<>>, "empty")

IdleRun ==
    [pc |-> "idle", arxiv_url |-> <<>>, pdf_url |-> <<>>, main_pdf_content |-> NoBytes,
     references |-> JsonArray(<<>>), i |-> 0,
     all_pdf_paths |-> <<>>, downloaded_references |-> <<>>, num_references |-> 0,
     pdf_paths |-> <<>>, j |-> 0, total_text |-> <<>>, total_word_count |-> 0,
     docs |-> <<>>, read_from |-> 0]

NoFiles == [p \in {} |-> NoBytes]

IdleProbe == [pc |-> "off"]

InitPipeline(active) ==
    /\ files = NoFiles
    /\ run = [r \in Runs |-> IF r \in active THEN [IdleRun EXCEPT !.pc = "start"]
                             ELSE IdleRun]
    /\ calls = [r \in Runs |-> <<>>]
    /\ writer = 0
    /\ probe = IdleProbe

Init ==
    /\ mode = "single"
    /\ InitPipeline({1})

InitConc ==
    /\ mode = "conc"
    /\ InitPipeline({1, 2})

Call(op, url, idx, res) == [op |-> op, url |-> url, idx |-> idx, res |-> res]

\* the exception leaves process_arxiv_paper and no result is returned
Fail_Escape(r) == run' = [run EXCEPT ![r].pc = "escaped"]

\* the failed step left to be taken again
Fail_Retry(r) == UNCHANGED run

\* `except Exception` of process_arxiv_paper: {"success": False, "error": str(e)};
\* also the result when paths_file is None
Fail(r) == run' = [run EXCEPT ![r].pc = "error"]

(***************************************************************************)
(* download_arxiv_paper_and_citations, step by step.                       *)
(***************************************************************************)
\* process_arxiv_paper is called with arxiv_url; extract_arxiv_pdf_url runs.
\* No PDF URL: return None, 0, [] (success False).  An exception is caught by
\* process_arxiv_paper (success False).
StartRun(r) ==
    /\ run[r].pc = "start"
    /\ \E u \in UrlInputs(r) :
        LET pdf_url == extract_arxiv_pdf_url(u)
        IN  IF pdf_url.kind = "val"
                THEN run' = [run EXCEPT ![r].pc = "download_main",
                                        ![r].arxiv_url = u,
                                        ![r].pdf_url = pdf_url.val]
                ELSE run' = [run EXCEPT ![r].pc = "error", ![r].arxiv_url = u]
    /\ UNCHANGED <<files, calls, writer, mode, probe>>

DlResult(dl) ==
    IF dl.ret = "none" THEN "failed"
    ELSE IF dl.bytes.body = "empty" THEN "empty" ELSE "ok"

\* the None check left out
MainFailed_Never(dl) == FALSE

\* `if main_pdf_content is None`
MainFailed(dl) == dl.ret = "none"

\* main_pdf_content = self.download_pdf(pdf_url, main_pdf_path);
\* `if main_pdf_content is None: return None, 0, []`
DownloadMain(r) ==
    /\ run[r].pc = "download_main"
    /\ \E net \in NetInputs :
        LET dl == download_pdf(run[r].pdf_url, main_pdf_path, net, files)
        IN  /\ files' = dl.files
            /\ calls' = [calls EXCEPT ![r] =
                    IF dl.requested
                        THEN Append(@, Call("get", run[r].pdf_url, -1, DlResult(dl)))
                        ELSE @]
            /\ IF MainFailed(dl)
                 THEN Fail(r)
                 ELSE run' = [run EXCEPT ![r].pc = "llm_citations",
                                         ![r].main_pdf_content = dl.bytes]
    /\ UNCHANGED <<writer, mode, probe>>

\* extract_references_with_llm: text extraction (never raises), then the
\* citation-listing call llama_service.text_chat(...), which may raise
LlmCitations(r) ==
    /\ run[r].pc = "llm_citations"
    /\ \E threw \in BOOLEAN :
        /\ calls' = [calls EXCEPT ![r] =
                Append(@, Call("llm_citations", <<>>, -1, IF threw THEN "failed" ELSE "ok"))]
        /\ IF threw THEN Fail(r)
           ELSE run' = [run EXCEPT ![r].pc = "llm_ids"]
    /\ UNCHANGED <<files, writer, mode, probe>>

\* the ID-extraction call, the parsing of its reply, and the return to
\* download_arxiv_paper_and_citations, which sets up the download loop
LlmIds(r) ==
    /\ run[r].pc = "llm_ids"
    /\ \/ /\ calls' = [calls EXCEPT ![r] = Append(@, Call("llm_ids", <<>>, -1, "failed"))]
          /\ Fail(r)
       \/ \E reply \in ReplyInputs :
          LET parsed == parse_references(reply)
          IN  /\ calls' = [calls EXCEPT ![r] = Append(@, Call("llm_ids", <<>>, -1, "ok"))]
              /\ IF parsed.raised THEN Fail(r)
                 ELSE run' = [run EXCEPT ![r].pc = "loop",
                                         ![r].references = parsed.val,
                                         ![r].i = 0,
                                         ![r].all_pdf_paths = <<main_pdf_path>>,
                                         ![r].downloaded_references = <<>>]
    /\ UNCHANGED <<files, writer, mode, probe>>

\* what one iteration of `for i, reference in enumerate(references)` does with
\* the element: "raise" (not a dict, or an ID re.match cannot take), "skip"
\* (ID missing, empty or invalid) or "download"
RefAction(reference) ==
    IF ~IsDict(reference) THEN "raise"
    ELSE LET ref_id == RefId(reference.a)
         IN  IF ~IdTruthy(ref_id) THEN "skip"
             ELSE IF ref_id.kind # "str" THEN "raise"
             ELSE IF is_valid_arxiv_id(ref_id.s) THEN "download"
             ELSE "skip"

\* the file name made of the title and the position in the list
TitleOf_Indexed(reference, i) ==
    LET t == RefTitle(reference.a)
    IN  IF t.kind = "absent" THEN DefaultTitle(i) ELSE t.s \o DefaultTitle(i)

\* reference.get("title", f"reference_{i}")
TitleOf(reference, i) ==
    LET t == RefTitle(reference.a)
    IN  IF t.kind = "absent" THEN DefaultTitle(i) ELSE t.s

\* one iteration of the download loop (i is the 0-based index of the element)
LoopStep(r) ==
    /\ run[r].pc = "loop"
    /\ Iterable(run[r].references)
    /\ run[r].i < Len(Elements(run[r].references))
    /\ LET i         == run[r].i
           reference == Elements(run[r].references)[i + 1]
           what      == RefAction(reference)
       IN  CASE what = "raise" ->
                    /\ Fail(r)
                    /\ UNCHANGED <<files, calls>>
             [] what = "skip" ->
                    /\ run' = [run EXCEPT ![r].i = i + 1]
                    /\ UNCHANGED <<files, calls>>
             [] what = "download" ->
                    \E net \in NetInputs :
                      LET ref_title == TitleOf(reference, i)
                          url       == ref_url(RefId(reference.a).s)
                          path      == ref_pdf_path(ref_title)
                          dl        == download_pdf(url, path, net, files)
                      IN  /\ files' = dl.files
                          /\ calls' = [calls EXCEPT ![r] =
                                 Append(@, Call("get", url, i, DlResult(dl)))]
                          /\ run' = [run EXCEPT
                                 ![r].i = i + 1,
                                 ![r].all_pdf_paths =
                                     IF Truthy(dl) THEN Append(@, path) ELSE @,
                                 ![r].downloaded_references =
                                     IF Truthy(dl) THEN Append(@, ref_title) ELSE @]
    /\ UNCHANGED <<writer, mode, probe>>

\* enumerate(references) on a value that is not iterable: TypeError
LoopNotIterable(r) ==
    /\ run[r].pc = "loop"
    /\ ~Iterable(run[r].references)
    /\ Fail(r)
    /\ UNCHANGED <<files, calls, writer, mode, probe>>

\* the references counted when their ID passes the guard of the loop
NumReferences_Valid(references) ==
    Len(SelectSeq(Elements(references), LAMBDA e : RefAction(e) = "download"))

\* the references counted without their repetitions
NumReferences_Distinct(references) ==
    Cardinality({Elements(references)[k] : k \in DOMAIN Elements(references)})

\* len(references) of the return statement
NumReferences(references) == Len(Elements(references))

\* after the loop: write '\n'.join(all_pdf_paths) to pdf_paths.txt and
\* return paths_file, len(references), downloaded_references
WritePaths(r) ==
    /\ run[r].pc = "loop"
    /\ Iterable(run[r].references)
    /\ run[r].i = Len(Elements(run[r].references))
    /\ files' = FileWrite(files, paths_file, TextFile(JoinLines(run[r].all_pdf_paths)))
    /\ writer' = r
    /\ run' = [run EXCEPT ![r].pc = "ingest_open",
                          ![r].num_references = NumReferences(run[r].references)]
    /\ UNCHANGED <<calls, mode, probe>>

(***************************************************************************)
(* ingest_paper_content, step by step.                                     *)
(***************************************************************************)
\* the paths taken from the run's own list instead of the shared file
ManifestRead_Own(r) == run[r].all_pdf_paths

\* with open(paths_file, 'r') as f: f.read().splitlines()
ManifestRead(r) == SplitLines(files[paths_file].text)

\* pdf_paths = f.read().splitlines()
IngestOpen(r) ==
    /\ run[r].pc = "ingest_open"
    /\ run' = [run EXCEPT ![r].pc = "ingest_loop",
                          ![r].pdf_paths = ManifestRead(r),
                          ![r].j = 0,
                          ![r].total_text = <<>>,
                          ![r].total_word_count = 0,
                          ![r].read_from = writer]
    /\ UNCHANGED <<files, calls, writer, mode, probe>>

\* one iteration of `for i, pdf_path in enumerate(pdf_paths)`: a file that
\* cannot be opened raises inside the try and is skipped
IngestStep(r) ==
    /\ run[r].pc = "ingest_loop"
    /\ run[r].j < Len(run[r].pdf_paths)
    /\ LET pdf_path == run[r].pdf_paths[run[r].j + 1]
       IN  IF pdf_path \in DOMAIN files
             THEN LET pdf_content == files[pdf_path]
                      text        == extract_text_from_pdf(pdf_content)
                  IN  run' = [run EXCEPT
                          ![r].j = @ + 1,
                          ![r].total_text = @ \o text \o <<"\n\n">>,
                          ![r].total_word_count = @ + Len(WsSplit(text)),
                          ![r].docs = Append(@, pdf_content)]
             ELSE run' = [run EXCEPT ![r].j = @ + 1]
    /\ UNCHANGED <<files, calls, writer, mode, probe>>

\* return total_text, total_word_count; process_arxiv_paper returns success True
IngestDone(r) ==
    /\ run[r].pc = "ingest_loop"
    /\ run[r].j = Len(run[r].pdf_paths)
    /\ run' = [run EXCEPT ![r].pc = "done"]
    /\ UNCHANGED <<files, calls, writer, mode, probe>>

Next ==
    \/ \E r \in Runs : StartRun(r)
    \/ \E r \in Runs : DownloadMain(r)
    \/ \E r \in Runs : LlmCitations(r)
    \/ \E r \in Runs : LlmIds(r)
    \/ \E r \in Runs : LoopStep(r)
    \/ \E r \in Runs : LoopNotIterable(r)
    \/ \E r \in Runs : WritePaths(r)
    \/ \E r \in Runs : IngestOpen(r)
    \/ \E r \in Runs : IngestStep(r)
    \/ \E r \in Runs : IngestDone(r)

\* one ingestion run
Spec == Init /\ [][Next]_vars

\* one ingestion run in which every step that can be taken is eventually taken:
\* the code is one sequential chain of blocking steps, and every download, LLM
\* call and file operation returns or raises
SpecLive == Init /\ [][Next]_vars /\ WF_vars(Next)

\* two ingestion runs on the same download directory, their steps interleaved
SpecConc == InitConc /\ [][Next]_vars

(***************************************************************************)
(* Single-function scenario: extract_arxiv_pdf_url and download_pdf on     *)
(* URLs of many shapes.  A URL is scheme, host, path prefix, path kind,    *)
(* identifier part and suffix; prefix, identifier and suffix may be empty. *)
(***************************************************************************)
UrlSchemes == {<<"https://">>, <<"http://">>}
UrlHosts == {<<"arxiv.org">>, <<"evil.com">>}
UrlPrefixes == {<<>>, <<"/", "arxiv.org">>}
UrlKinds == {<<"/">>, <<"/abs/">>, <<"/html/">>, <<"/pdf/">>}
UrlIds == {<<>>, <<"1706.03762">>, <<"1706.03762", "v7">>, <<" ">>, <<"1706.03762", " ", "x">>}
UrlSuffixes == {<<>>, <<".pdf">>}

UrlParts ==
    [scheme : UrlSchemes, host : UrlHosts, prefix : UrlPrefixes, kind : UrlKinds,
     id : UrlIds, suffix : UrlSuffixes]

UrlText(p) == p.scheme \o p.host \o p.prefix \o p.kind \o p.id \o p.suffix

InitUrl ==
    /\ mode = "url"
    /\ files = NoFiles
    /\ run = [r \in Runs |-> IdleRun]
    /\ calls = [r \in Runs |-> <<>>]
    /\ writer = 0
    /\ \E p \in UrlParts :
         probe = [pc |-> "url_in", parts |-> p, url |-> UrlText(p),
                  norm |-> NoneResult, ret |-> "none", requested |-> FALSE]

\* pdf_url = self.extract_arxiv_pdf_url(arxiv_url)
ProbeNormalize ==
    /\ probe.pc = "url_in"
    /\ probe' = [probe EXCEPT !.pc = "url_norm", !.norm = extract_arxiv_pdf_url(probe.url)]
    /\ UNCHANGED <<files, run, calls, writer, mode>>

\* self.download_pdf(url, save_path), with and without a save path
ProbeDownload ==
    /\ probe.pc = "url_norm"
    /\ \E net \in NetOutcomes, save_path \in {<<>>, main_pdf_path} :
        LET dl == download_pdf(probe.url, save_path, net, files)
        IN  /\ files' = dl.files
            /\ probe' = [probe EXCEPT !.pc = "url_done", !.ret = dl.ret,
                                      !.requested = dl.requested]
    /\ UNCHANGED <<run, calls, writer, mode>>

NextUrl == ProbeNormalize \/ ProbeDownload

SpecUrl == InitUrl /\ [][NextUrl]_vars

(***************************************************************************)
(* Single-function scenario: the parsing of the ID-extraction reply, on    *)
(* every reply text of up to MaxTextLen tokens.                            *)
(***************************************************************************)
MaxTextLen == 4

ReplyAlphabet == {"[", "]", ",", "o1", "num", "junk"}

InitParse ==
    /\ mode = "parse"
    /\ files = NoFiles
    /\ run = [r \in Runs |-> IdleRun]
    /\ calls = [r \in Runs |-> <<>>]
    /\ writer = 0
    /\ \E text \in TokSeqs(ReplyAlphabet, MaxTextLen) :
         probe = [pc |-> "parse_in", text |-> text, raised |-> FALSE,
                  references |-> JsonArray(<<>>)]

\* response_json = response["response"]; ...; return references
ProbeParse ==
    /\ probe.pc = "parse_in"
    /\ LET parsed == parse_references(probe.text)
       IN  probe' = [probe EXCEPT !.pc = "parse_done", !.raised = parsed.raised,
                                  !.references = parsed.val]
    /\ UNCHANGED <<files, run, calls, writer, mode>>

NextParse == ProbeParse

SpecParse == InitParse /\ [][NextParse]_vars

(***************************************************************************)
(* Single-function scenario: is_valid_arxiv_id on strings of many shapes.  *)
(* A string is some leading characters, a run of digits, a separator, a    *)
(* second run of digits and some trailing characters.                      *)
(***************************************************************************)
\* bound on the length of each run of digits
MaxDigits == 6

\* n digits
DigitRun(n) == [k \in 1..n |-> IF k % 2 = 1 THEN "1" ELSE "7"]

IdParts ==
    [lead  : {<<>>, <<"a">>, <<" ">>, <<"\n">>, <<"0">>},
     first : 0..MaxDigits,
     sep   : {<<>>, <<".">>, <<"-">>, <<"\n">>, <<".", ".">>},
     second : 0..MaxDigits,
     trail : {<<>>, <<"\n">>, <<"\n", "\n">>, <<" ">>, <<"v">>, <<"v", "2">>}]

IdText(p) == p.lead \o DigitRun(p.first) \o p.sep \o DigitRun(p.second) \o p.trail

InitId ==
    /\ mode = "id"
    /\ files = NoFiles
    /\ run = [r \in Runs |-> IdleRun]
    /\ calls = [r \in Runs |-> <<>>]
    /\ writer = 0
    /\ \E p \in IdParts :
         probe = [pc |-> "id_in", parts |-> p, id |-> IdText(p), valid |-> FALSE]

\* self.is_valid_arxiv_id(ref_id)
ProbeValidate ==
    /\ probe.pc = "id_in"
    /\ probe' = [probe EXCEPT !.pc = "id_done", !.valid = is_valid_arxiv_id(probe.id)]
    /\ UNCHANGED <<files, run, calls, writer, mode>>

NextId == ProbeValidate

SpecId == InitId /\ [][NextId]_vars

(***************************************************************************)
(* Reply texts that hold a JSON object (code-generation and analysis       *)
(* endpoints).  The braces, the comma and whitespace are tokens of their   *)
(* own; a member token stands for one `"key": value` pair; "prose" is text *)
(* without braces that is no JSON; "fence:json" is the seven characters    *)
(* that open a markdown JSON fence and "fence" the three backquotes that   *)
(* close it; the pieces of the SDK wrapper are tokens of their own.        *)
(***************************************************************************)
Null == [kind |-> "null", s |-> <<>>]
List == [kind |-> "list", s |-> <<>>]
Dict == [kind |-> "dict", s |-> <<>>]

MemberTokens ==
    {"pc:code", "pc:empty", "rq:reqs", "rq:list", "ts:tests", "ts:empty", "ts:blank",
     "ts:null", "fn:name", "sm:text", "sc:dict", "sc:text", "gc:code",
     "ta:text", "ta:null"}

\* the key of a member
MemberKey(tok) ==
    CASE tok \in {"pc:code", "pc:empty"} -> "python_code"
      [] tok \in {"rq:reqs", "rq:list"} -> "requirements_txt"
      [] tok \in {"ts:tests", "ts:empty", "ts:blank", "ts:null"} -> "tests_code"
      [] tok = "fn:name" -> "file_name"
      [] tok = "sm:text" -> "summary"
      [] tok \in {"sc:dict", "sc:text"} -> "sections"
      [] tok = "gc:code" -> "generatedCode"
      [] tok \in {"ta:text", "ta:null"} -> "tablesAnalysis"

\* the value of a member: a string (its text), null, a non-empty list
\* (["numpy", ...]) or an object of strings
MemberVal(tok) ==
    CASE tok = "pc:code"  -> Str(<<"code">>)
      [] tok = "pc:empty" -> Str(<<>>)
      [] tok = "rq:reqs"  -> Str(<<"reqs">>)
      [] tok = "rq:list"  -> List
      [] tok = "ts:tests" -> Str(<<"tests">>)
      [] tok = "ts:empty" -> Str(<<>>)
      [] tok = "ts:blank" -> Str(<<" ", "\n">>)
      [] tok = "ts:null"  -> Null
      [] tok = "fn:name"  -> Str(<<"name.py">>)
      [] tok = "sm:text"  -> Str(<<"summary text">>)
      [] tok = "sc:dict"  -> Dict
      [] tok = "sc:text"  -> Str(<<"sections text">>)
      [] tok = "gc:code"  -> Str(<<"code">>)
      [] tok = "ta:text"  -> Str(<<"tables text">>)
      [] tok = "ta:null"  -> Null

\* the number of characters of a token, as far as slicing by characters can
\* tell: 1, 2, 3, 7, or 4 for every longer token
Width(tok) ==
    CASE tok \in {" ", "\n", "{", "}", ",", "[", "]"} -> 1
      [] tok = "')" -> 2
      [] tok = "fence" -> 3
      [] tok = "fence:json" -> 7
      [] OTHER -> 4

\* s[:-n]: s without its last n characters; a token that is cut through is left
\* as "junk"
RECURSIVE DropLastChars(_, _)
DropLastChars(s, n) ==
    IF n = 0 \/ s = <<>> THEN s
    ELSE LET w == Width(s[Len(s)])
             front == SubSeq(s, 1, Len(s) - 1)
         IN  IF w <= n THEN DropLastChars(front, n - w)
             ELSE Append(front, "junk")

\* s.strip()
RECURSIVE Strip(_)
Strip(s) ==
    IF s = <<>> THEN s
    ELSE IF IsSpace(Head(s)) THEN Strip(Tail(s))
    ELSE IF IsSpace(s[Len(s)]) THEN Strip(SubSeq(s, 1, Len(s) - 1))
    ELSE s

\* s.find(tok) and s.rfind(tok) for a one-token needle, as 1-based positions;
\* 0 when tok does not occur
Find(s, tok) ==
    LET hits == {i \in 1..Len(s) : s[i] = tok}
    IN  IF hits = {} THEN 0 ELSE CHOOSE i \in hits : \A j \in hits : i <= j

RFind(s, tok) ==
    LET hits == {i \in 1..Len(s) : s[i] = tok}
    IN  IF hits = {} THEN 0 ELSE CHOOSE i \in hits : \A j \in hits : j <= i

\* a parsed JSON document: a dict (its members by key), another value (array,
\* number, string, null), or JSONDecodeError (ok = FALSE)
NoMembers == [k \in {} |-> Absent]
DocFail == [ok |-> FALSE, isdict |-> FALSE, members |-> NoMembers, other |-> JsonArray(<<>>)]
DocDict(m) == [ok |-> TRUE, isdict |-> TRUE, members |-> m, other |-> JsonArray(<<>>)]
DocOther(v) == [ok |-> TRUE, isdict |-> FALSE, members |-> NoMembers, other |-> v]

\* the members between "{" and "}", whitespace removed: member ("," member)*;
\* a key given twice keeps its last value
RECURSIVE ParseMembers(_, _)
ParseMembers(toks, acc) ==
    IF toks = <<>> THEN DocFail
    ELSE IF Head(toks) \notin MemberTokens THEN DocFail
    ELSE LET k    == MemberKey(Head(toks))
             acc2 == [x \in (DOMAIN acc) \cup {k} |->
                         IF x = k THEN MemberVal(Head(toks)) ELSE acc[x]]
         IN  IF Len(toks) = 1 THEN DocDict(acc2)
             ELSE IF toks[2] # "," THEN DocFail
             ELSE ParseMembers(SubSeq(toks, 3, Len(toks)), acc2)

\* json.loads(text) on a reply text: whitespace around the value and between
\* the tokens of an object is skipped
doc_loads(text) ==
    LET t == Strip(text)
    IN  IF t = <<>> THEN DocFail
        ELSE IF t[1] = "{"
            THEN (IF Len(t) < 2 \/ t[Len(t)] # "}" THEN DocFail
                  ELSE LET inner == SelectSeq(SubSeq(t, 2, Len(t) - 1), LAMBDA c : ~IsSpace(c))
                       IN  IF inner = <<>> THEN DocDict(NoMembers)
                           ELSE ParseMembers(inner, NoMembers))
        ELSE LET v == json_loads(t)
             IN  IF v.ok THEN DocOther(v.val) ELSE DocFail

\* "{" m1 "," " " m2 ... "}"
RECURSIVE MembersText(_)
MembersText(ms) ==
    IF ms = <<>> THEN <<>>
    ELSE IF Len(ms) = 1 THEN <<ms[1]>>
    ELSE <<ms[1], ",", " ">> \o MembersText(Tail(ms))

ObjectText(ms) == <<"{">> \o MembersText(ms) \o <<"}">>

(***************************************************************************)
(* The completion client (src/src/llama_api_caller.py).  Temperatures are  *)
(* in tenths.                                                              *)
(***************************************************************************)
default_temperature == 7

\* `temperature = temperature or self.default_temperature`
SentTemperature(temperature) ==
    IF temperature = 0 THEN default_temperature ELSE temperature

LlmCall(method, temperature) ==
    [method |-> method, temperature |-> SentTemperature(temperature)]

\* bound on a token count the provider reports
MaxTokens == 2

\* the names of the usage metrics the provider sends
MetricNames == {"num_prompt_tokens", "num_completion_tokens", "num_total_tokens"}

\* int(metric.value): the value of a metric is a token count n, sent as an
\* int or as a float
IntOf(value) == value.n

\* the lists of metrics that name no metric twice
MetricLists ==
    {ms \in TokSeqs([metric : MetricNames,
                     value : [kind : {"int", "float"}, n : 0..MaxTokens]],
                    Cardinality(MetricNames)) :
        \A j, k \in DOMAIN ms : j # k => ms[j].metric # ms[k].metric}

\* response.metrics: no such attribute, None, or a list
MetricsInputs ==
    {[kind |-> "noattr", list |-> <<>>], [kind |-> "none", list |-> <<>>]}
    \cup {[kind |-> "list", list |-> ms] : ms \in MetricLists}

\* `for metric in response.metrics`, from the values found so far
RECURSIVE ScanMetrics(_, _)
ScanMetrics(metrics, acc) ==
    IF metrics = <<>> THEN acc
    ELSE LET metric == Head(metrics)
             acc2   == IF metric.metric = "num_total_tokens"
                            THEN [acc EXCEPT !.total_tokens = IntOf(metric.value)]
                       ELSE IF metric.metric = "num_completion_tokens"
                            THEN [acc EXCEPT !.completion_tokens = IntOf(metric.value)]
                       ELSE acc
         IN  ScanMetrics(Tail(metrics), acc2)

\* the two counts taken from each other's metric
extract_response_data_Swapped(content, metrics, model) ==
    LET found == IF metrics.kind = "list" /\ metrics.list # <<>>
                    THEN ScanMetrics(metrics.list,
                                     [total_tokens |-> 0, completion_tokens |-> 0])
                    ELSE [total_tokens |-> 0, completion_tokens |-> 0]
    IN  [response |-> <<"reply", content>>, model |-> model,
         tokens_used |-> found.total_tokens, total_tokens |-> found.completion_tokens]

\* LlamaAPIService._extract_response_data(response, model); content is what
\* response.completion_message.content is: a str, an object with .text, or an
\* object without it
extract_response_data(content, metrics, model) ==
    LET text  == IF content = "str" THEN <<"reply">>
                 ELSE IF content = "text_attr" THEN <<"reply text">>
                 ELSE <<"str(content)">>
        found == IF metrics.kind = "list" /\ metrics.list # <<>>
                    THEN ScanMetrics(metrics.list,
                                     [total_tokens |-> 0, completion_tokens |-> 0])
                    ELSE [total_tokens |-> 0, completion_tokens |-> 0]
    IN  [response |-> text, model |-> model,
         tokens_used |-> found.completion_tokens, total_tokens |-> found.total_tokens]

InitMetrics ==
    /\ mode = "metrics"
    /\ files = NoFiles
    /\ run = [r \in Runs |-> IdleRun]
    /\ calls = [r \in Runs |-> <<>>]
    /\ writer = 0
    /\ \E content \in {"str", "text_attr", "other"}, metrics \in MetricsInputs :
         probe = [pc |-> "data_in", content |-> content, metrics |-> metrics,
                  data |-> [response |-> <<>>, model |-> "", tokens_used |-> 0,
                            total_tokens |-> 0]]

\* return self._extract_response_data(response, model)
ProbeExtractData ==
    /\ probe.pc = "data_in"
    /\ probe' = [probe EXCEPT
           !.pc = "data_done",
           !.data = extract_response_data(probe.content, probe.metrics, "model")]
    /\ UNCHANGED <<files, run, calls, writer, mode>>

NextMetrics == ProbeExtractData

SpecMetrics == InitMetrics /\ [][NextMetrics]_vars

(***************************************************************************)
(* The arguments of a chat method and the request it sends.  An optional   *)
(* argument is None or a number; a model is None, "" or a name.            *)
(***************************************************************************)
NoneArg == [kind |-> "none", n |-> 0]
NumArg(n) == [kind |-> "num", n |-> n]

default_model == "Llama-4-Maverick-17B-128E-Instruct-FP8"
default_max_tokens == 1024

\* Python truthiness of an optional number: None and 0 are false
ArgTruthy(arg) == arg.kind = "num" /\ arg.n # 0

\* `max_tokens = max_tokens or self.default_max_tokens`
SentMaxTokens(max_tokens) ==
    IF ArgTruthy(max_tokens) THEN max_tokens.n ELSE default_max_tokens

\* `temperature = temperature or self.default_temperature` on an optional argument
SentTemperatureArg(temperature) ==
    IF temperature.kind = "none" THEN default_temperature
    ELSE SentTemperature(temperature.n)

\* `model = model or self.default_model`
SentModel(model) == IF model \in {"none", ""} THEN default_model ELSE model

\* the keyword arguments of self.client.chat.completions.create
chat_request(model, max_tokens, temperature) ==
    [model |-> SentModel(model),
     max_completion_tokens |-> SentMaxTokens(max_tokens),
     temperature |-> SentTemperatureArg(temperature)]

ChatMethods ==
    {"text_chat", "text_chat_with_system_prompt", "text_chat_with_response_format",
     "multimodal_chat", "multimodal_chat_with_system_prompt"}

InitChat ==
    /\ mode = "chat"
    /\ files = NoFiles
    /\ run = [r \in Runs |-> IdleRun]
    /\ calls = [r \in Runs |-> <<>>]
    /\ writer = 0
    /\ \E method \in ChatMethods, model \in {"none", "", "other-model"},
          max_tokens \in {NoneArg} \cup {NumArg(n) : n \in {0, 1, 100, 1024, 2048}},
          temperature \in {NoneArg} \cup {NumArg(n) : n \in {0, 1, 3, 7, 10}} :
         probe = [pc |-> "chat_in", method |-> method, model |-> model,
                  max_tokens |-> max_tokens, temperature |-> temperature,
                  sent |-> chat_request("none", NoneArg, NoneArg), outcome |-> ""]

\* a chat method: the three `or` lines, then the request, which returns a
\* response or raises
ProbeChat ==
    /\ probe.pc = "chat_in"
    /\ \E outcome \in {"returned", "raised"} :
         probe' = [probe EXCEPT
             !.pc = "chat_done",
             !.sent = chat_request(probe.model, probe.max_tokens, probe.temperature),
             !.outcome = outcome]
    /\ UNCHANGED <<files, run, calls, writer, mode>>

NextChat == ProbeChat

SpecChat == InitChat /\ [][NextChat]_vars

(***************************************************************************)
(* /qa: qa_about_paper (src/src/main.py).  The request's state is in       *)
(* `probe`: the result of the ingestion, the replies received (answer,     *)
(* title), the LLM calls made (llm), how the request ended (via) and the   *)
(* response.                                                               *)
(***************************************************************************)
QaHttpError(status) == [status |-> status, paper_title |-> <<>>, answer |-> <<>>]
QaResult(paper_title, answer) ==
    [status |-> 200, paper_title |-> paper_title, answer |-> answer]

\* the classes `except Exception` catches: fastapi's HTTPException derives from
\* Exception
CaughtByExceptException == {"HTTPException", "Exception"}

\* an exception of class exc raised in the try block of the handler; an
\* HTTPException that is not caught answers with its own status
qa_raise(exc, status) ==
    IF exc \in CaughtByExceptException THEN QaHttpError(500) ELSE QaHttpError(status)

\* max_tokens and temperature of the title-extraction call
title_max_tokens == 100
title_temperature == 1

\* one call of llama_service.text_chat_with_system_prompt and the request it sends
QaCall(purpose, max_tokens, temperature) ==
    [purpose |-> purpose,
     request |-> chat_request("other-model", NumArg(max_tokens), NumArg(temperature))]

\* paper_title = title_result["response"].strip(), with the fallback for an
\* empty title and for one of more than 200 characters (the token "long")
qa_paper_title(response) ==
    LET paper_title == Strip(response)
    IN  IF paper_title = <<>> \/ \E k \in DOMAIN paper_title : paper_title[k] = "long"
            THEN <<"Research Paper">>
            ELSE paper_title

InitQa ==
    /\ mode = "qa"
    /\ files = NoFiles
    /\ run = [r \in Runs |-> IdleRun]
    /\ calls = [r \in Runs |-> <<>>]
    /\ writer = 0
    /\ \E max_tokens \in {0, 100, 2048}, temperature \in {0, 3} :
         probe = [pc |-> "qa_start", max_tokens |-> max_tokens,
                  temperature |-> temperature, success |-> FALSE, answer |-> <<>>,
                  title |-> <<>>, llm |-> <<>>, via |-> "", response |-> QaHttpError(500)]

\* pdf_result = pdf_processor.process_arxiv_paper(request.arxiv_url), which
\* returns a result in every case, and the test of pdf_result["success"]
QaIngest ==
    /\ probe.pc = "qa_start"
    /\ \E success \in BOOLEAN :
         IF success
             THEN probe' = [probe EXCEPT !.pc = "qa_analysis", !.success = TRUE]
             ELSE probe' = [probe EXCEPT !.pc = "qa_done", !.via = "ingest_failed",
                                         !.response = qa_raise("HTTPException", 400)]
    /\ UNCHANGED <<files, run, calls, writer, mode>>

\* the analysis call with the request's max_tokens and temperature
QaAnalysis ==
    /\ probe.pc = "qa_analysis"
    /\ LET sent == Append(probe.llm,
                          QaCall("analysis", probe.max_tokens, probe.temperature))
       IN  \/ probe' = [probe EXCEPT !.pc = "qa_done", !.llm = sent,
                                     !.via = "llm_raised",
                                     !.response = qa_raise("Exception", 500)]
           \/ \E answer \in {<<>>, <<"prose">>} :
                probe' = [probe EXCEPT !.pc = "qa_title", !.llm = sent,
                                       !.answer = answer]
    /\ UNCHANGED <<files, run, calls, writer, mode>>

\* the title-extraction call and the response
QaTitle ==
    /\ probe.pc = "qa_title"
    /\ LET sent == Append(probe.llm,
                          QaCall("title", title_max_tokens, title_temperature))
       IN  \/ probe' = [probe EXCEPT !.pc = "qa_done", !.llm = sent,
                                     !.via = "llm_raised",
                                     !.response = qa_raise("Exception", 500)]
           \/ \E title \in {<<>>, <<" ">>, <<"T">>, <<" ", "T", "\n">>, <<"T", " ", "T">>,
                            <<"long">>, <<"T", " ", "long">>, <<"\n", "\n">>} :
                probe' = [probe EXCEPT
                    !.pc = "qa_done", !.llm = sent, !.title = title,
                    !.via = "responded",
                    !.response = QaResult(qa_paper_title(title), probe.answer)]
    /\ UNCHANGED <<files, run, calls, writer, mode>>

NextQa == QaIngest \/ QaAnalysis \/ QaTitle

SpecQa == InitQa /\ [][NextQa]_vars

(***************************************************************************)
(* /code_gen: generate_code_from_paper (src/src/main.py).  The state of a   *)
(* request is in `probe`: the replies received (first, cleanup), the text  *)
(* that is parsed (response_text), the LLM calls made (llm), how the       *)
(* request ended (via) and the response.                                   *)
(***************************************************************************)
required_fields == <<"python_code", "requirements_txt", "tests_code">>

\* the temperature of the corrective call
cleanup_temperature == 1

\* f"main_example_{request.example_number}.py"
DefaultFileName == <<"main_example_n.py">>

\* CodeGenResponse(...) that is returned, and the HTTPException(500) the outer
\* `except Exception` raises
CgResult(file_name, python_code, requirements_txt, tests_code) ==
    [status |-> 200, file_name |-> file_name, python_code |-> python_code,
     requirements_txt |-> requirements_txt, tests_code |-> tests_code]

CgHttp500 ==
    [status |-> 500, file_name |-> <<>>, python_code |-> <<>>,
     requirements_txt |-> <<>>, tests_code |-> <<>>]

CgEmptyReply ==
    CgResult(DefaultFileName, <<"# ERROR: The paper content was too large">>, <<>>, <<>>)

\* only the reply without any character counted as empty
IsEmptyResponse_Exact(reply) == reply = <<>>

\* `if not result.get("response", "").strip()`
IsEmptyResponse(reply) == Strip(reply) = <<>>

\* the MessageTextContentItem branch: the text between the first "text='" and
\* the last "')" when there is at least one character between them
unwrap_sdk(response_text) ==
    IF /\ Contains(response_text, <<"MessageTextContentItem">>)
       /\ Contains(response_text, <<"text='">>)
        THEN LET a == Find(response_text, "text='")
                 b == RFind(response_text, "')")
             IN  IF b > a + 1 THEN SubSeq(response_text, a + 1, b - 1)
                 ELSE response_text
        ELSE response_text

\* `if not response_text.strip().startswith('{')`
needs_cleanup(response_text) ==
    LET t == Strip(response_text)
    IN  t = <<>> \/ t[1] # "{"

\* one round of `for field in required_fields` on the parsed value:
\* "missing", "empty", "ok", or "raise" (TypeError of `in` on a number or
\* null, AttributeError of .strip() on a value that is no string)
FieldState(parsed, field) ==
    IF ~parsed.isdict
        THEN (IF parsed.other.t = "atom" /\ parsed.other.a \in {"num", "null"}
                THEN "raise" ELSE "missing")
    ELSE IF field \notin DOMAIN parsed.members THEN "missing"
    ELSE LET v == parsed.members[field]
         IN  IF v.kind = "null" THEN "empty"
             ELSE IF v.kind = "str"
                THEN (IF Strip(v.s) = <<>> THEN "empty" ELSE "ok")
             ELSE "raise"

FieldsIn(parsed, state) ==
    SelectSeq(required_fields, LAMBDA f : FieldState(parsed, f) = state)

\* parsed_response.get(key, default)
GetOr(parsed, key, default) ==
    IF parsed.isdict /\ key \in DOMAIN parsed.members THEN parsed.members[key]
    ELSE default

\* warning_msg + parsed_response.get("python_code", "")
WithWarning(empty_fields, code) ==
    <<"# WARNING: The following fields were empty: ">> \o empty_fields \o <<"\n">> \o code

\* the error response for missing fields
MissingResult(missing_fields) ==
    CgResult(DefaultFileName, <<"ERROR: Missing required fields: ">> \o missing_fields,
             <<>>, <<>>)

\* the body of `try: parsed_response = json.loads(response_text) ...` with its
\* `except json.JSONDecodeError`, under the outer `except Exception`
respond(response_text) ==
    LET parsed == doc_loads(response_text)
    IN  IF ~parsed.ok
            THEN CgResult(DefaultFileName, response_text, <<>>, <<>>)
        ELSE IF FieldsIn(parsed, "raise") # <<>> THEN CgHttp500
        ELSE LET missing_fields == FieldsIn(parsed, "missing")
                 empty_fields   == FieldsIn(parsed, "empty")
                 file_name      == GetOr(parsed, "file_name", Str(DefaultFileName))
                 code           == GetOr(parsed, "python_code", Str(<<>>))
                 requirements   == GetOr(parsed, "requirements_txt", Str(<<>>))
                 tests          == GetOr(parsed, "tests_code", Str(<<>>))
             IN  IF missing_fields # <<>> THEN MissingResult(missing_fields)
                 ELSE IF empty_fields # <<>> /\ code.kind # "str" THEN CgHttp500
                 ELSE IF \E v \in {file_name, code, requirements, tests} : v.kind # "str"
                    THEN CgHttp500
                 ELSE CgResult(file_name.s,
                               IF empty_fields # <<>> THEN WithWarning(empty_fields, code.s)
                               ELSE code.s,
                               requirements.s, tests.s)

\* the replies that are explored: every object with or without each member
CgBodies ==
    {ObjectText(SelectSeq(<<c.pc, c.rq, c.ts, c.fn>>, LAMBDA tok : tok # "")) :
        c \in [pc : {"", "pc:code", "pc:empty"}, rq : {"", "rq:reqs", "rq:list"},
               ts : {"", "ts:tests", "ts:empty", "ts:blank", "ts:null"},
               fn : {"", "fn:name"}]}
    \cup { <<>>, <<"prose">>, <<"[", "]">>, <<"num">>, <<"{", "pc:code", ",">> }

\* what may stand before and after the body of a reply
Wrappings ==
    { <<<<>>, <<>>>>, <<<<"\n">>, <<"\n">>>>,
      <<<<"prose", " ">>, <<" ", "prose">>>>, <<<<"prose", "\n">>, <<>>>>,
      <<<<"fence:json", "\n">>, <<"\n", "fence">>>>, <<<<"fence:json", "\n">>, <<>>>>,
      <<<<"MessageTextContentItem", "(", "text='">>, <<"')">>>>,
      <<<<"MessageTextContentItem", "(", "text='">>, <<>>>> }

FirstReplies == {w[1] \o b \o w[2] : w \in Wrappings, b \in CgBodies}

CleanupReplies ==
    { ObjectText(<<"pc:code", "rq:reqs", "ts:tests">>),
      ObjectText(<<"pc:code", "rq:reqs", "ts:tests", "fn:name">>),
      ObjectText(<<"pc:code", "rq:reqs", "ts:empty">>),
      ObjectText(<<"pc:code", "rq:reqs">>),
      ObjectText(<<"pc:empty", "ts:null">>),
      ObjectText(<<"pc:code", "rq:list", "ts:tests">>),
      <<"\n">> \o ObjectText(<<"pc:code", "rq:reqs", "ts:tests">>) \o <<"\n">>,
      <<"fence:json", "\n">> \o ObjectText(<<"pc:code", "rq:reqs", "ts:tests">>)
          \o <<"\n", "fence">>,
      <<"prose", " ">> \o ObjectText(<<"pc:code", "rq:reqs", "ts:tests">>),
      <<"{", "pc:code", ",">>, <<"prose">>, <<>>, <<"[", "]">>, <<"num">> }

InitCodeGen ==
    /\ mode = "code_gen"
    /\ files = NoFiles
    /\ run = [r \in Runs |-> IdleRun]
    /\ calls = [r \in Runs |-> <<>>]
    /\ writer = 0
    /\ \E images \in BOOLEAN, temperature \in {0, 3} :
         probe = [pc |-> "cg_start", images |-> images, temperature |-> temperature,
                  first |-> <<>>, cleanup |-> <<>>, response_text |-> <<>>,
                  llm |-> <<>>, via |-> "", response |-> CgHttp500]

\* the first LLM call (with or without images), the empty-reply check, the
\* wrapper branch and the test that decides on the corrective call
CgFirstCall ==
    /\ probe.pc = "cg_start"
    /\ LET method == IF probe.images THEN "multimodal_chat_with_system_prompt"
                     ELSE "text_chat_with_response_format"
           sent   == Append(probe.llm, LlmCall(method, probe.temperature))
       IN  \/ probe' = [probe EXCEPT !.pc = "cg_done", !.llm = sent,
                                     !.via = "first_raised", !.response = CgHttp500]
           \/ \E reply \in FirstReplies :
                IF IsEmptyResponse(reply)
                    THEN probe' = [probe EXCEPT !.pc = "cg_done", !.llm = sent,
                                                !.first = reply, !.via = "empty_reply",
                                                !.response = CgEmptyReply]
                    ELSE LET response_text == unwrap_sdk(reply)
                         IN  probe' = [probe EXCEPT
                                 !.pc = IF needs_cleanup(response_text) THEN "cg_cleanup"
                                        ELSE "cg_parse",
                                 !.llm = sent, !.first = reply,
                                 !.response_text = response_text]
    /\ UNCHANGED <<files, run, calls, writer, mode>>

\* cleanup_result = llama_service.text_chat_with_system_prompt(...,
\* temperature=0.1); response_text = cleanup_result["response"]
CgCleanupCall ==
    /\ probe.pc = "cg_cleanup"
    /\ LET sent == Append(probe.llm,
                          LlmCall("text_chat_with_system_prompt", cleanup_temperature))
       IN  \/ probe' = [probe EXCEPT !.pc = "cg_done", !.llm = sent,
                                     !.via = "cleanup_raised", !.response = CgHttp500]
           \/ \E reply \in CleanupReplies :
                probe' = [probe EXCEPT !.pc = "cg_parse", !.llm = sent,
                                       !.cleanup = reply, !.response_text = reply]
    /\ UNCHANGED <<files, run, calls, writer, mode>>

\* json.loads, the validation of the fields and the response
CgRespond ==
    /\ probe.pc = "cg_parse"
    /\ probe' = [probe EXCEPT !.pc = "cg_done", !.via = "responded",
                              !.response = respond(probe.response_text)]
    /\ UNCHANGED <<files, run, calls, writer, mode>>

NextCodeGen == CgFirstCall \/ CgCleanupCall \/ CgRespond

SpecCodeGen == InitCodeGen /\ [][NextCodeGen]_vars

(***************************************************************************)
(* /process-document: process_document (src/backend/main.py).  The state   *)
(* of a request is in `probe`: the uploaded content, the extracted texts,  *)
(* the reply (its payload and the form it is presented in), the parsed     *)
(* value, how the request ended (via) and the response.                    *)
(***************************************************************************)
\* The uploaded content is base64 of a PDF the parsers read ("pdf"), base64 of
\* bytes the parsers throw on ("bad"), or text that is no base64 ("notb64").

AnHttpError(status) ==
    [status |-> status, summary |-> Absent, sections |-> Absent,
     generatedCode |-> Absent, tablesAnalysis |-> Absent]

AnResult(summary, sections, generatedCode, tablesAnalysis) ==
    [status |-> 200, summary |-> summary, sections |-> sections,
     generatedCode |-> generatedCode, tablesAnalysis |-> tablesAnalysis]

\* the parser failure absorbed: "" is returned
extract_text_from_pdf_bytes_Empty(content) ==
    IF content = "pdf" THEN ValResult(<<"document text">>) ELSE ValResult(<<>>)

\* extract_text_from_pdf_bytes: the text of the pages; when fitz throws,
\* HTTPException(400) is raised
extract_text_from_pdf_bytes(content) ==
    IF content = "pdf" THEN ValResult(<<"document text">>) ELSE RaiseResult

\* extract_tables_as_text: the tables as markdown; "" when pdfplumber throws
extract_tables_as_text(content, threw) ==
    IF content = "pdf" /\ ~threw THEN <<"tables text">> ELSE <<>>

\* the slice taken up to the last "}" exclusively
analysis_repair_ExclusiveEnd(raw_content) ==
    LET s1 == Strip(raw_content)
        s2 == IF s1 # <<>> /\ s1[1] = "fence:json"
                THEN Strip(DropLastChars(Tail(s1), 3)) ELSE s1
        start_index == Find(s2, "{")
        end_index   == RFind(s2, "}")
    IN  IF start_index # 0 /\ end_index # 0 /\ end_index > start_index
            THEN SubSeq(s2, start_index, end_index - 1)
            ELSE s2

\* json_str = raw_content.strip(); the fence cut off by json_str[7:-3].strip();
\* the slice from the first "{" to the last "}"
analysis_repair(raw_content) ==
    LET s1 == Strip(raw_content)
        s2 == IF s1 # <<>> /\ s1[1] = "fence:json"
                THEN Strip(DropLastChars(Tail(s1), 3)) ELSE s1
        start_index == Find(s2, "{")
        end_index   == RFind(s2, "}")
    IN  IF start_index # 0 /\ end_index # 0 /\ end_index > start_index
            THEN SubSeq(s2, start_index, end_index)
            ELSE s2

\* parsed_data.get(key): None for a missing key and for null
GetNone(parsed, key) ==
    LET v == GetOr(parsed, key, Absent)
    IN  IF v.kind = "null" THEN Absent ELSE v

\* a value a field of ProcessingResponse takes
FieldAccepts(key, v) ==
    \/ v.kind = "absent"
    \/ IF key = "sections" THEN v.kind = "dict" ELSE v.kind = "str"

RawSummary(raw_content) ==
    Str(<<"Error: Failed to parse JSON response from AI. Raw output below:\n\n">>
        \o raw_content)

\* an object literal of the reference replies is a dict without these keys
IsDictValue(parsed) ==
    parsed.isdict \/ (parsed.other.t = "atom" /\ parsed.other.a \in ObjTokens)

\* step 4 and 5 of process_document: the inner try with its
\* `except (json.JSONDecodeError, TypeError)`, under the outer handlers
analysis_respond(raw_content) ==
    LET parsed == doc_loads(analysis_repair(raw_content))
    IN  IF ~parsed.ok THEN AnResult(RawSummary(raw_content), Absent, Absent, Absent)
        ELSE IF ~IsDictValue(parsed) THEN AnHttpError(500)
        ELSE IF \E k \in {"summary", "sections", "generatedCode", "tablesAnalysis"} :
                    ~FieldAccepts(k, GetNone(parsed, k))
            THEN AnHttpError(500)
        ELSE AnResult(GetNone(parsed, "summary"), GetNone(parsed, "sections"),
                      GetNone(parsed, "generatedCode"), GetNone(parsed, "tablesAnalysis"))

\* the replies that are explored: a payload (the members of an object) in a form
AnPayloads ==
    {SelectSeq(<<c.sm, c.sc, c.gc, c.ta>>, LAMBDA tok : tok # "") :
        c \in [sm : {"", "sm:text"}, sc : {"", "sc:dict", "sc:text"},
               gc : {"", "gc:code"}, ta : {"", "ta:text", "ta:null"}]}

AnForms ==
    {"pure", "pure_ws", "fenced", "fenced_ws", "fenced_open", "fenced_prose", "prose",
     "prose_lead", "prose_tail", "truncated", "array", "number", "text", "empty"}

FormText(payload, form) ==
    LET obj == ObjectText(payload)
    IN  CASE form = "pure"         -> obj
          [] form = "pure_ws"      -> <<"\n">> \o obj \o <<" ", "\n">>
          [] form = "fenced"       -> <<"fence:json", "\n">> \o obj \o <<"\n", "fence">>
          [] form = "fenced_ws"    -> <<" ", "fence:json">> \o obj \o <<"fence", "\n">>
          [] form = "fenced_open"  -> <<"fence:json", "\n">> \o obj
          [] form = "fenced_prose" ->
                 <<"prose", "\n", "fence:json", "\n">> \o obj \o <<"\n", "fence", "\n", "prose">>
          [] form = "prose"        -> <<"prose", " ">> \o obj \o <<" ", "prose">>
          [] form = "prose_lead"   -> <<"prose", "\n">> \o obj
          [] form = "prose_tail"   -> obj \o <<"\n", "prose">>
          [] form = "truncated"    -> SubSeq(obj, 1, Len(obj) - 1)
          [] form = "array"        -> <<"[", "]">>
          [] form = "number"       -> <<"num">>
          [] form = "text"         -> <<"prose">>
          [] form = "empty"        -> <<>>

InitAnalysis ==
    /\ mode = "analysis"
    /\ files = NoFiles
    /\ run = [r \in Runs |-> IdleRun]
    /\ calls = [r \in Runs |-> <<>>]
    /\ writer = 0
    /\ \E content \in {"pdf", "bad", "notb64"} :
         probe = [pc |-> "an_start", content |-> content, tables_threw |-> FALSE,
                  document_text |-> <<>>, tables_text |-> <<>>,
                  payload |-> <<>>, form |-> "", raw_content |-> <<>>,
                  parsed |-> DocFail, via |-> "", response |-> AnHttpError(500)]

\* step 1: base64.b64decode, extract_text_from_pdf_bytes, extract_tables_as_text
AnExtract ==
    /\ probe.pc = "an_start"
    /\ IF probe.content = "notb64"
         THEN probe' = [probe EXCEPT !.pc = "an_done", !.via = "decode_raised",
                                     !.response = AnHttpError(500)]
         ELSE LET document_text == extract_text_from_pdf_bytes(probe.content)
              IN  IF document_text.kind = "raise"
                    THEN probe' = [probe EXCEPT !.pc = "an_done", !.via = "pdf_raised",
                                                !.response = AnHttpError(400)]
                    ELSE \E threw \in BOOLEAN :
                           probe' = [probe EXCEPT
                               !.pc = "an_llm", !.tables_threw = threw,
                               !.document_text = document_text.val,
                               !.tables_text = extract_tables_as_text(probe.content, threw)]
    /\ UNCHANGED <<files, run, calls, writer, mode>>

\* steps 2 and 3: the prompt and client.chat.completions.create, which may raise;
\* raw_content = response.completion_message.content.text
AnLlmCall ==
    /\ probe.pc = "an_llm"
    /\ \/ probe' = [probe EXCEPT !.pc = "an_done", !.via = "llm_raised",
                                 !.response = AnHttpError(500)]
       \/ \E payload \in AnPayloads, form \in AnForms :
            probe' = [probe EXCEPT !.pc = "an_parse", !.payload = payload, !.form = form,
                                   !.raw_content = FormText(payload, form)]
    /\ UNCHANGED <<files, run, calls, writer, mode>>

\* steps 4 and 5: the repair, json.loads and the response
AnRespond ==
    /\ probe.pc = "an_parse"
    /\ probe' = [probe EXCEPT !.pc = "an_done", !.via = "responded",
                              !.parsed = doc_loads(analysis_repair(probe.raw_content)),
                              !.response = analysis_respond(probe.raw_content)]
    /\ UNCHANGED <<files, run, calls, writer, mode>>

NextAnalysis == AnExtract \/ AnLlmCall \/ AnRespond

SpecAnalysis == InitAnalysis /\ [][NextAnalysis]_vars

(***************************************************************************)
(* Properties of the ingestion run.                                        *)
(***************************************************************************)
IsMainGet(c) == c.op = "get" /\ c.idx = -1
IsRefGet(c) == c.op = "get" /\ c.idx >= 0
IsLlm(c) == c.op \in {"llm_citations", "llm_ids"}
IsFailedLlm(c) == IsLlm(c) /\ c.res = "failed"
IsFailedRefGet(c) == IsRefGet(c) /\ c.res = "failed"
IsEmptyRefGet(c) == IsRefGet(c) /\ c.res = "empty"

\* a run's calls of each kind, in the order they were made
RefGets(r) == SelectSeq(calls[r], IsRefGet)
LlmCalls(r) == SelectSeq(calls[r], IsLlm)
FailedLlmCalls(r) == SelectSeq(calls[r], IsFailedLlm)
FailedRefGets(r) == SelectSeq(calls[r], IsFailedRefGet)
EmptyRefGets(r) == SelectSeq(calls[r], IsEmptyRefGet)

\* the primary PDF has been downloaded: download_pdf returned its bytes
PrimaryDownloaded(r) == run[r].main_pdf_content.url # <<>>

\* the primary download was attempted and failed
PrimaryFailed(r) == \E k \in 1..Len(calls[r]) : IsMainGet(calls[r][k]) /\ calls[r][k].res = "failed"

Finished(r) == run[r].pc \in {"done", "error"}

\* C1: once the primary PDF has been downloaded, the run never ends in the error
\* outcome (success = false), whatever the resolver, the reference downloads and
\* the extractions do.
C1_NoErrorAfterPrimary ==
    \A r \in Runs : PrimaryDownloaded(r) => run[r].pc # "error"

\* C2: when one of the resolver's two LLM calls throws, the run ends with
\* success = true, num_references = 0, no reference download attempted and a
\* manifest holding only the primary paper.
C2_LlmThrowIsZeroReferences ==
    \A r \in Runs :
        (FailedLlmCalls(r) # <<>> /\ Finished(r)) =>
            /\ run[r].pc = "done"
            /\ run[r].num_references = 0
            /\ RefGets(r) = <<>>
            /\ run[r].all_pdf_paths = <<main_pdf_path>>

\* every element of the resolver's list is an object whose ID passes the guard
\* of the download loop
AllDownloadable(v) ==
    /\ v.t = "arr"
    /\ \A k \in 1..Len(v.items) : RefAction(v.items[k]) = "download"

\* C3: with N references that all carry valid IDs, when exactly one reference
\* download fails and the others succeed (with a PDF body), every reference is
\* attempted, in order, also after the failing one; N-1 reference paths are in
\* the path list, downloaded_references has N-1 titles, and the run does not end
\* in the error outcome.
C3_OneFailureIsolated ==
    \A r \in Runs :
        LET N == Len(run[r].references.items)
            gets == RefGets(r)
        IN  ( /\ run[r].pc \in {"ingest_open", "ingest_loop", "done", "error"}
              /\ AllDownloadable(run[r].references)
              /\ N >= 1
              /\ Len(FailedRefGets(r)) = 1
              /\ EmptyRefGets(r) = <<>> )
            => /\ Len(gets) = N
               /\ \A k \in 1..N : gets[k].idx = k - 1
               /\ Len(run[r].all_pdf_paths) = 1 + (N - 1)
               /\ Len(run[r].downloaded_references) = N - 1
               /\ run[r].pc # "error"

\* C3 witness: a finished run of two valid references whose first download
\* failed and whose second was still attempted and succeeded
C3_Witness ==
    \E r \in Runs :
        LET gets == RefGets(r)
        IN  /\ run[r].pc = "done"
            /\ AllDownloadable(run[r].references)
            /\ Len(run[r].references.items) = 2
            /\ Len(gets) = 2
            /\ gets[1].res = "failed"
            /\ gets[2].res = "ok"
            /\ Len(run[r].downloaded_references) = 1

\* C4: when the primary PDF download fails, the run ends in the error outcome,
\* makes no LLM call and no reference download, and writes no manifest file.
C4_PrimaryFailureIsTerminal ==
    \A r \in Runs :
        PrimaryFailed(r) =>
            /\ run[r].pc = "error"
            /\ LlmCalls(r) = <<>>
            /\ RefGets(r) = <<>>
            /\ paths_file \notin DOMAIN files
            /\ writer = 0

\* C4 witness: a run whose primary download was requested and failed
C4_Witness ==
    \E r \in Runs : PrimaryFailed(r) /\ run[r].pc = "error" /\ Len(calls[r]) = 1

\* the paths of a run's references whose download gave a PDF body, in order
RECURSIVE OkPaths(_, _)
OkPaths(r, gets) ==
    IF gets = <<>> THEN <<>>
    ELSE LET g == Head(gets)
             e == run[r].references.items[g.idx + 1]
         IN  (IF g.res = "ok" THEN <<ref_pdf_path(TitleOf(e, g.idx))>> ELSE <<>>)
             \o OkPaths(r, Tail(gets))

\* C5: with two runs on the same download directory, a run's corpus is built
\* from the manifest on disk at the moment the run reads it, which is the
\* manifest of whichever run wrote pdf_paths.txt last (not necessarily its own),
\* while num_references and downloaded_references are always the run's own.
C5_LastWriterWins ==
    \A r \in Runs :
        run[r].pc \in {"ingest_loop", "done"} =>
            /\ run[r].read_from \in Runs
            /\ run[r].pdf_paths = SplitLines(JoinLines(run[run[r].read_from].all_pdf_paths))
            /\ run[r].num_references = Len(Elements(run[r].references))
            /\ Len(run[r].downloaded_references) = Len(run[r].all_pdf_paths) - 1
            /\ run[r].all_pdf_paths = <<main_pdf_path>> \o OkPaths(r, RefGets(r))

\* C5 witness: run 1 found and downloaded one reference, yet it read the
\* manifest run 2 wrote, so its corpus is run 2's primary paper and nothing else
C5_Witness ==
    /\ run[1].pc = "done"
    /\ run[1].read_from = 2
    /\ run[1].num_references = 1
    /\ run[1].downloaded_references = <<<<"X">>>>
    /\ run[1].pdf_paths = <<main_pdf_path>>
    /\ Len(run[1].docs) = 1
    /\ run[1].docs[1].url = run[2].pdf_url
    /\ run[1].docs[1].url # run[1].pdf_url

\* \d{4}\.\d{4,5} or \d{7}, the whole ID and nothing else
InIdGrammar(id) == id.kind = "str" /\ (FullModern(id.s) \/ FullLegacy(id.s))

\* C6: no download is attempted for a reference whose ID is absent or outside
\* the identifier grammar, and no such reference gets into the path list or
\* into downloaded_references.
C6_OnlyGrammaticalIdsFetched ==
    \A r \in Runs :
        LET gets == RefGets(r)
        IN  /\ \A k \in 1..Len(gets) :
                 InIdGrammar(RefId(run[r].references.items[gets[k].idx + 1].a))
            /\ Len(run[r].downloaded_references) <= Len(gets)
            /\ Len(run[r].all_pdf_paths) <= 1 + Len(gets)

\* C7: after a download stage that succeeded, the manifest's entries are the
\* primary paper's path followed by exactly the paths of the references whose
\* download succeeded, in resolver order: 1 + len(downloaded_references) entries.
C7_ManifestIsPrimaryThenReferences ==
    \A r \in Runs :
        (run[r].pc \in {"ingest_open", "ingest_loop", "done"} /\ writer = r) =>
            LET entries == SplitLines(files[paths_file].text)
            IN  /\ Len(entries) = 1 + Len(run[r].downloaded_references)
                /\ entries[1] = main_pdf_path
                /\ entries = <<main_pdf_path>> \o OkPaths(r, RefGets(r))

(***************************************************************************)
(* Properties of download_pdf and extract_arxiv_pdf_url.                   *)
(***************************************************************************)
PathTokens == {"/", "/abs/", "/html/", "/pdf/", " "}

\* the host of a URL: what stands between the scheme and the path
HostOf(url) ==
    LET stops == {i \in 2..Len(url) : url[i] \in PathTokens}
        e     == IF stops = {} THEN Len(url) + 1
                 ELSE CHOOSE i \in stops : \A k \in stops : i <= k
    IN  SubSeq(url, 2, e - 1)

\* C8: download_pdf, given a URL whose host is not arxiv.org, returns failure
\* without making a network request and without writing a file.
C8_ForeignHostNeverFetched ==
    (probe.pc = "url_done" /\ HostOf(probe.url) # <<"arxiv.org">>) =>
        /\ probe.ret = "none"
        /\ ~probe.requested
        /\ DOMAIN files = {}

\* a URL of one of the three recognised shapes, for an identifier
RecognisedShape(p) ==
    /\ p.scheme = <<"https://">>
    /\ p.host = <<"arxiv.org">>
    /\ p.prefix = <<>>
    /\ p.id \in {<<"1706.03762">>, <<"1706.03762", "v7">>}
    /\ \/ p.kind \in {<<"/abs/">>, <<"/html/">>} /\ p.suffix = <<>>
       \/ p.kind = <<"/pdf/">> /\ p.suffix = <<".pdf">>

\* a URL that has none of the three shapes: "arxiv.org" nowhere in it, no /abs/,
\* /html/ or /pdf/ path, or an /abs/ or /html/ path with no identifier after it
OtherShape(p) ==
    \/ p.host # <<"arxiv.org">> /\ p.prefix = <<>>
    \/ p.kind = <<"/">>
    \/ p.kind \in {<<"/abs/">>, <<"/html/">>} /\ p.id \in {<<>>, <<" ">>} /\ p.suffix = <<>>

\* C9: the /abs/{id}, /html/{id} and /pdf/{id}.pdf URLs of an identifier all map
\* to https://arxiv.org/pdf/{id}.pdf, and a URL of any other shape gives none,
\* without raising.
C9_NormalizerCanonicalOrNone ==
    probe.pc \in {"url_norm", "url_done"} =>
        /\ RecognisedShape(probe.parts) =>
              (probe.norm.kind = "val" /\ probe.norm.val = PdfUrlOf(probe.parts.id))
        /\ OtherShape(probe.parts) => probe.norm.kind = "none"

(***************************************************************************)
(* Properties of the parsing of the ID-extraction reply.                   *)
(***************************************************************************)
\* the text from the first "[" to the last "]"; <<>> when the text has no "[",
\* no "]", or its last "]" stands before its first "["
FirstToLastBracket(text) ==
    LET opens  == {i \in 1..Len(text) : text[i] = "["}
        closes == {i \in 1..Len(text) : text[i] = "]"}
    IN  IF opens = {} \/ closes = {} THEN <<>>
        ELSE LET a == CHOOSE i \in opens : \A k \in opens : i <= k
                 b == CHOOSE j \in closes : \A k \in closes : k <= j
             IN  IF a < b THEN SubSeq(text, a, b) ELSE <<>>

\* C10: the resolver returns the whole reply parsed as JSON when that parses;
\* otherwise the span from the first "[" to the last "]" parsed as JSON when
\* there is such a span and it parses; otherwise the empty list; and it raises
\* on no reply text.
C10_ParsePolicy ==
    probe.pc = "parse_done" =>
        LET whole == json_loads(probe.text)
            span  == FirstToLastBracket(probe.text)
        IN  /\ ~probe.raised
            /\ probe.references =
                 IF whole.ok THEN whole.val
                 ELSE IF span # <<>> /\ json_loads(span).ok THEN json_loads(span).val
                 ELSE JsonArray(<<>>)

\* C10 witness: a reply that is no JSON as a whole, whose bracket span parses to
\* a list of one reference
C10_Witness ==
    /\ probe.pc = "parse_done"
    /\ probe.text = <<"junk", "[", "o1", "]">>
    /\ ~json_loads(probe.text).ok
    /\ probe.references = JsonArray(<<JsonAtom("o1")>>)

\* the positions in a run's history of the calls of one kind
CallsOf(r, op, idx) ==
    {k \in DOMAIN calls[r] : calls[r][k].op = op /\ calls[r][k].idx = idx}

\* C15: in a run, the primary download, the download of each reference of the
\* list, the citation-listing call and the ID-extraction call are each made at
\* most once, failed or not; the ID-extraction call is made only after the
\* citation-listing call has returned; and the calls made are never taken back
C15_EveryCallAtMostOnce ==
    \A r \in Runs :
        /\ Cardinality(CallsOf(r, "get", -1)) <= 1
        /\ \A idx \in 0..Len(calls[r]) : Cardinality(CallsOf(r, "get", idx)) <= 1
        /\ Cardinality(CallsOf(r, "llm_citations", -1)) <= 1
        /\ Cardinality(CallsOf(r, "llm_ids", -1)) <= 1
        /\ \A k \in DOMAIN calls[r] :
              /\ calls[r][k].idx \in -1..Len(calls[r])
              /\ calls[r][k].op = "llm_ids" =>
                    \E j \in 1..(k - 1) :
                        calls[r][j].op = "llm_citations" /\ calls[r][j].res = "ok"
              /\ calls[r][k].res = "failed" =>
                    \A j \in (k + 1)..Len(calls[r]) :
                        ~(calls[r][j].op = calls[r][k].op /\ calls[r][j].idx = calls[r][k].idx)

\* a finished run that made every kind of call, one reference download failing
\* and another one being made after it
C15_Witness ==
    \E r \in Runs :
        /\ Finished(r)
        /\ Len(LlmCalls(r)) = 2
        /\ Len(RefGets(r)) = 2
        /\ RefGets(r)[1].res = "failed"
        /\ RefGets(r)[1].url = RefGets(r)[2].url

\* the parser read the bytes of the document
ExtractionSucceeded(doc) == doc.kind = "pdf" /\ doc.body = "pdf"

\* the texts of the documents whose extraction succeeded, each followed by the
\* blank-line separator, in order
RECURSIVE CorpusOf(_)
CorpusOf(ds) ==
    IF ds = <<>> THEN <<>>
    ELSE (IF ExtractionSucceeded(Head(ds))
            THEN extract_text_from_pdf(Head(ds)) \o <<"\n\n">> ELSE <<>>)
         \o CorpusOf(Tail(ds))

RECURSIVE WordsOf(_)
WordsOf(ds) ==
    IF ds = <<>> THEN 0
    ELSE (IF ExtractionSucceeded(Head(ds))
            THEN Len(WsSplit(extract_text_from_pdf(Head(ds)))) ELSE 0)
         + WordsOf(Tail(ds))

\* C16: the corpus of a finished run is the texts, in manifest order, of the
\* documents that were read and whose extraction succeeded (each with its
\* separator), and the word count is the sum of their whitespace-split token
\* counts; a document whose read or extraction failed adds nothing to either
C16_CorpusIsSuccessfulTexts ==
    \A r \in Runs :
        Finished(r) =>
            /\ run[r].total_word_count = WordsOf(run[r].docs)
            /\ run[r].total_text = CorpusOf(run[r].docs)

\* C17: in every successful result the number of titles in
\* downloaded_references is at most num_references
C17_DownloadedAtMostNumReferences ==
    \A r \in Runs :
        run[r].pc = "done" =>
            Len(run[r].downloaded_references) <= run[r].num_references

\* a successful run in which both references of the list were downloaded, the
\* two being equal
C17_Witness ==
    \E r \in Runs :
        /\ run[r].pc = "done"
        /\ run[r].num_references = 2
        /\ Len(run[r].downloaded_references) = 2
        /\ Elements(run[r].references)[1] = Elements(run[r].references)[2]

(***************************************************************************)
(* Properties of the code-generation endpoint.                             *)
(***************************************************************************)
IsCleanupCall(c) == c.method = "text_chat_with_system_prompt"

CgDone == mode = "code_gen" /\ probe.pc = "cg_done"

\* the text json.loads turns into an object
IsJsonObject(text) == doc_loads(text).ok /\ doc_loads(text).isdict

\* C11: when the first reply is not empty, the corrective call (temperature
\* 0.1) is made exactly when the first reply does not parse as a JSON object,
\* and at most once; when the corrected reply is no JSON text either, the
\* request returns a result whose code field is that raw text
C11_CorrectiveCallOnParseFailure ==
    (CgDone /\ Strip(probe.first) # <<>>) =>
        LET cleanups == SelectSeq(probe.llm, IsCleanupCall)
        IN  /\ Len(cleanups) <= 1
            /\ \A k \in 1..Len(cleanups) : cleanups[k].temperature = 1
            /\ (Len(cleanups) = 1) <=> ~IsJsonObject(unwrap_sdk(probe.first))
            /\ (Len(cleanups) = 1 /\ probe.via = "responded"
                    /\ ~doc_loads(probe.cleanup).ok) =>
                 /\ probe.response.status = 200
                 /\ probe.response.python_code = probe.cleanup

IsEmptyString(v) == v.kind = "str" /\ v.s = <<>>

\* C12: when the parsed JSON object lacks a required field, the response is
\* a result whose code field names the missing fields; when it has all three
\* and one of them is "", the response is a result whose code field is a
\* warning comment followed by the reply's python_code
C12_MissingIsErrorEmptyIsWarning ==
    (CgDone /\ probe.via = "responded" /\ doc_loads(probe.response_text).isdict) =>
        LET members == doc_loads(probe.response_text).members
            missing == SelectSeq(required_fields, LAMBDA f : f \notin DOMAIN members)
            code    == probe.response.python_code
        IN  /\ missing # <<>> =>
                /\ probe.response.status = 200
                /\ code = <<"ERROR: Missing required fields: ">> \o missing
            /\ (missing = <<>> /\ \E f \in DOMAIN members : IsEmptyString(members[f])) =>
                /\ probe.response.status = 200
                /\ Len(code) >= 1
                /\ code[1] = "# WARNING: The following fields were empty: "
                /\ members["python_code"].kind = "str"
                /\ \E n \in 1..Len(code) :
                       /\ code[n] = "\n"
                       /\ SubSeq(code, n + 1, Len(code)) = members["python_code"].s

\* a value the validation counts as empty: null, "" or blank text
IsEmptyValue(v) == v.kind = "null" \/ (v.kind = "str" /\ Strip(v.s) = <<>>)

\* C28: when the parsed object lacks a required field and has another required
\* field that is empty, the missing-field error wins: the response is a result
\* whose code field is the error message, without the warning comment, and
\* whose requirements_txt and tests_code are empty whatever the reply supplied.
C28_MissingWinsOverEmpty ==
    (CgDone /\ probe.via = "responded" /\ doc_loads(probe.response_text).isdict) =>
        LET members == doc_loads(probe.response_text).members
            present == SelectSeq(required_fields, LAMBDA f : f \in DOMAIN members)
            missing == SelectSeq(required_fields, LAMBDA f : f \notin DOMAIN members)
        IN  ( /\ missing # <<>>
              /\ \E k \in DOMAIN present : IsEmptyValue(members[present[k]]) )
            => /\ probe.response.status = 200
               /\ probe.response.python_code =
                      <<"ERROR: Missing required fields: ">> \o missing
               /\ probe.response.requirements_txt = <<>>
               /\ probe.response.tests_code = <<>>

\* the first LLM call returned a reply without any character but whitespace
FirstReplyBlank ==
    /\ probe.via # "first_raised"
    /\ \A k \in DOMAIN probe.first : IsSpace(probe.first[k])

\* C29: when the first reply is empty or whitespace only, the request ends at
\* once with the error-comment result: one LLM call, no corrective call and no
\* JSON parsing; and no request makes more than two LLM calls.
C29_EmptyReplyEndsAtOnce ==
    /\ mode = "code_gen" => Len(probe.llm) <= 2
    /\ (CgDone /\ FirstReplyBlank) =>
          /\ Len(probe.llm) = 1
          /\ ~IsCleanupCall(probe.llm[1])
          /\ probe.via = "empty_reply"
          /\ probe.cleanup = <<>> /\ probe.response_text = <<>>
          /\ probe.response.status = 200
          /\ probe.response.python_code = <<"# ERROR: The paper content was too large">>
          /\ probe.response.requirements_txt = <<>>
          /\ probe.response.tests_code = <<>>

\* C29 witness: a request whose first reply was two line breaks, ended after
\* its one LLM call
C29_Witness ==
    /\ CgDone
    /\ probe.first = <<"\n", "\n">>
    /\ probe.via = "empty_reply"
    /\ Len(probe.llm) = 1

(***************************************************************************)
(* Properties of the analysis endpoint.                                    *)
(***************************************************************************)
AnDone == mode = "analysis" /\ probe.pc = "an_done"

\* the three presentations of a payload: the JSON text alone, inside a markdown
\* JSON fence, and with prose before and after it
ThreeForms == {"pure", "fenced", "prose"}

\* C13: the repair steps of the analysis endpoint give, for a payload presented
\* as pure JSON, inside a markdown JSON fence, or with prose before and after
\* the object, the object that json.loads gives for the pure JSON text
C13_ThreeFormsSameObject ==
    (AnDone /\ probe.via = "responded" /\ probe.form \in ThreeForms) =>
        /\ probe.parsed.ok
        /\ probe.parsed.isdict
        /\ probe.parsed = doc_loads(FormText(probe.payload, "pure"))
        /\ DOMAIN probe.parsed.members = {MemberKey(probe.payload[k]) : k \in DOMAIN probe.payload}

C13_Witness ==
    /\ AnDone
    /\ probe.via = "responded"
    /\ probe.form = "fenced"
    /\ Len(probe.payload) >= 2
    /\ probe.parsed.isdict
    /\ probe.response.status = 200

\* C14: once the LLM has replied, the request is answered with status 200
\* whatever the reply text is, and a reply that the repair steps do not turn
\* into a JSON object is returned as raw text in summary
C14_RawTextNeverHttpError ==
    (AnDone /\ probe.via = "responded") =>
        /\ probe.response.status = 200
        /\ ~IsJsonObject(analysis_repair(probe.raw_content)) =>
               probe.response.summary = RawSummary(probe.raw_content)

C18_ValidIffInGrammar ==
    (mode = "id" /\ probe.pc = "id_done") =>
        (probe.valid <=> (FullModern(probe.id) \/ FullLegacy(probe.id)))

(***************************************************************************)
(* Properties of the completion client.                                    *)
(***************************************************************************)
\* the number the metric named `name` reports; 0 when the response has no
\* metrics or none of that name
Reported(metrics, name) ==
    IF metrics.kind = "list" /\ \E k \in DOMAIN metrics.list : metrics.list[k].metric = name
        THEN (CHOOSE m \in {metrics.list[k] : k \in DOMAIN metrics.list} :
                 m.metric = name).value.n
        ELSE 0

\* C20: _extract_response_data returns a result with tokens_used = the value
\* of the metric num_completion_tokens and total_tokens = the value of the
\* metric num_total_tokens, each 0 when the response has no metrics or lacks
\* that metric
C20_MissingMetricsAreZero ==
    (mode = "metrics" /\ probe.pc = "data_done") =>
        /\ probe.data.tokens_used = Reported(probe.metrics, "num_completion_tokens")
        /\ probe.data.total_tokens = Reported(probe.metrics, "num_total_tokens")

\* a response that reports completion tokens and no total
C20_Witness ==
    /\ mode = "metrics"
    /\ probe.pc = "data_done"
    /\ probe.metrics.kind = "list"
    /\ Len(probe.metrics.list) = 2
    /\ \A k \in DOMAIN probe.metrics.list : probe.metrics.list[k].metric # "num_total_tokens"
    /\ probe.data.tokens_used = 2
    /\ probe.data.total_tokens = 0

(***************************************************************************)
(* Properties of the files of the download directory.                      *)
(***************************************************************************)
\* the element of the resolver's list that the reference download c was made for
RefOfCall(r, c) == Elements(run[r].references)[c.idx + 1]

\* the two reference downloads were made for elements with the same title field
SameTitle(r, ca, cb) ==
    /\ IsDict(RefOfCall(r, ca)) /\ IsDict(RefOfCall(r, cb))
    /\ RefTitle(RefOfCall(r, ca).a).kind = "str"
    /\ RefTitle(RefOfCall(r, ca).a) = RefTitle(RefOfCall(r, cb).a)

\* the positions of the path list that hold `path`
Occurrences(paths, path) == {k \in DOMAIN paths : paths[k] = path}

\* C21: two references of the resolver's list that carry the same title and were
\* both downloaded have been written to one path, named after the title alone:
\* the file at that path holds the response of the later download, the path is
\* in the path list twice, and the manifest is written from that list.
C21_SameTitleSamePath ==
    \A r \in Runs :
        mode = "single" =>
            \A a, b \in DOMAIN calls[r] :
                LET ca == calls[r][a]
                    cb == calls[r][b]
                IN  ( /\ a < b
                      /\ IsRefGet(ca) /\ ca.res = "ok"
                      /\ IsRefGet(cb) /\ cb.res = "ok"
                      /\ \A k \in (b + 1)..Len(calls[r]) : ~IsRefGet(calls[r][k])
                      /\ SameTitle(r, ca, cb) )
                    => LET path == ref_pdf_path(RefTitle(RefOfCall(r, cb).a).s)
                       IN  /\ path \in DOMAIN files
                           /\ files[path].url = cb.url
                           /\ Cardinality(Occurrences(run[r].all_pdf_paths, path)) >= 2
                           /\ run[r].pc \in {"ingest_open", "ingest_loop", "done"} =>
                                files[paths_file].text = JoinLines(run[r].all_pdf_paths)

\* C21 witness: a finished run whose list was [o1, o3], both titled X with
\* different identifiers: X.pdf holds the paper of o3 and the manifest names
\* X.pdf on two of its lines
C21_Witness ==
    /\ mode = "single"
    /\ run[1].pc = "done"
    /\ Len(RefGets(1)) = 2
    /\ RefGets(1)[1].url = ref_url(Id1409) /\ RefGets(1)[1].res = "ok"
    /\ RefGets(1)[2].url = ref_url(Id1706) /\ RefGets(1)[2].res = "ok"
    /\ files[ref_pdf_path(<<"X">>)].url = ref_url(Id1706)
    /\ Cardinality(Occurrences(SplitLines(files[paths_file].text),
                               ref_pdf_path(<<"X">>))) = 2

\* the elements of the resolver's list that the loop passed over without a
\* download: no ID, an empty ID or an ID the predicate rejects
Skipped(r) ==
    SelectSeq(Elements(run[r].references), LAMBDA e : RefAction(e) = "skip")

\* C22: num_references of a successful result is the number of entries the
\* resolver returned: the entries skipped for a missing or invalid ID and the
\* entries whose download failed are counted as well as the downloaded ones.
C22_NumReferencesCountsEveryEntry ==
    \A r \in Runs :
        run[r].pc = "done" =>
            /\ run[r].num_references = Len(Elements(run[r].references))
            /\ run[r].num_references = Len(RefGets(r)) + Len(Skipped(r))
            /\ run[r].num_references >=
                   Len(run[r].downloaded_references) + Len(FailedRefGets(r)) + Len(Skipped(r))

\* C22 witness: a successful run on a list of two entries, one with an ID the
\* predicate rejects and one whose download failed: num_references = 2 and
\* nothing was downloaded
C22_Witness ==
    /\ mode = "single"
    /\ run[1].pc = "done"
    /\ run[1].num_references = 2
    /\ Len(Skipped(1)) = 1
    /\ Len(FailedRefGets(1)) = 1
    /\ run[1].downloaded_references = <<>>

\* C23: downloading a reference never changes the file of the primary paper:
\* whatever titles the resolver's entries carry, the first document the
\* ingestion pass reads, downloads/main_paper.pdf, holds the bytes of the
\* primary PDF that the same run wrote at its start.
C23_PrimaryFileUntouchedByReferences ==
    \A r \in Runs :
        (mode = "single" /\ run[r].pc \in {"ingest_loop", "done"} /\ run[r].j >= 1) =>
            /\ run[r].pdf_paths[1] = main_pdf_path
            /\ run[r].docs # <<>>
            /\ run[r].docs[1] = run[r].main_pdf_content

\* C24: a run that ends in the error outcome leaves the manifest and
\* main_paper.pdf as they were before the run.  The single run starts on a
\* download directory that holds neither file, so after an error outcome it
\* still holds neither.
C24_ErrorRunLeavesFilesAlone ==
    \A r \in Runs :
        (mode = "single" /\ run[r].pc = "error") =>
            /\ main_pdf_path \notin DOMAIN files
            /\ paths_file \notin DOMAIN files

\* the resolver's ID-extraction call returned a reply
ResolverReturned(r) ==
    \E k \in DOMAIN calls[r] : calls[r][k].op = "llm_ids" /\ calls[r][k].res = "ok"

\* C25: whatever JSON-parsable text the ID-extraction call returns (an object, a
\* string, a number, an array of non-objects), the value the resolver hands to
\* the download loop is a list of objects whose title and ID the loop can read,
\* and the loop reads every entry without raising.
C25_ResolverValueIsListOfObjects ==
    \A r \in Runs :
        ResolverReturned(r) =>
            /\ run[r].references.t = "arr"
            /\ \A k \in DOMAIN run[r].references.items :
                   /\ IsDict(run[r].references.items[k])
                   /\ RefAction(run[r].references.items[k]) # "raise"
            /\ run[r].pc # "error"

(***************************************************************************)
(* Properties of the chat methods.                                         *)
(***************************************************************************)
\* C27: a chat method sends the temperature and max_tokens its caller supplied,
\* 0 included, and the defaults 0.7 and 1024 only when the caller supplied none
C27_CallerValuesSentAsGiven ==
    (mode = "chat" /\ probe.pc = "chat_done") =>
        /\ probe.sent.temperature =
               IF probe.temperature.kind = "none" THEN 7 ELSE probe.temperature.n
        /\ probe.sent.max_completion_tokens =
               IF probe.max_tokens.kind = "none" THEN 1024 ELSE probe.max_tokens.n

(***************************************************************************)
(* Properties of the /qa request.                                          *)
(***************************************************************************)
\* C26: when the ingestion fails (pdf_result.success is false) /qa answers
\* with status 400 and has made no LLM call; status 500 is answered only when
\* something unexpected was raised.
C26_IngestFailureIs400 ==
    (mode = "qa" /\ probe.pc = "qa_done") =>
        /\ ~probe.success => (probe.response.status = 400 /\ probe.llm = <<>>)
        /\ probe.response.status = 500 => probe.via = "llm_raised"

(***************************************************************************)
(* Termination of the ingestion run.                                       *)
(***************************************************************************)
\* C30: when every external call returns or raises, every ingestion run that
\* was started ends with a result, success = true ("done") or success = false
\* ("error"), whatever finite value the resolver returned: no exception leaves
\* process_arxiv_paper and no loop runs forever.
C30_EveryRunReturnsAResult ==
    <>(\A r \in Runs : run[r].pc = "idle" \/ Finished(r))

\* C30 witness: a run that returned success = false after its download loop
\* raised on the resolver's value, and the exception was caught
C30_Witness ==
    /\ mode = "single"
    /\ run[1].pc = "error"
    /\ ResolverReturned(1)
    /\ ~Iterable(run[1].references)

====
